---- MODULE Spec2Model ----
(***************************************************************************)
(* The execution engine of the NLAP core: DAGExecutor.execute over an      *)
(* ActionRegistry.  One execution is modelled: the batches computed by     *)
(* buildExecutionOrder, the concurrent handlers of a batch with their      *)
(* retries, the merge of a batch into the result map, and compensation.    *)
(***************************************************************************)
EXTENDS Integers, Sequences, FiniteSets, TLC

\* ------------------------------------------------------------------------
\* Bounds of the model
\* ------------------------------------------------------------------------
\* longest plan (number of calls) that is drawn from all sequences of
\* actions
MaxCalls == 3
\* largest maxAttempts of a retry policy that is drawn
MaxAttempts == 2
\* largest maxAttempts drawn where the delays of a whole retry loop are
\* followed
MaxBackoffAttempts == 4
\* number of calls made on a registry
MaxOps == 3
\* largest repairMaxRetries of a pipeline (its default)
MaxRepairRetries == 2
MaxMessages == 5
MaxWorkingMemoryTurns == 2

\* ------------------------------------------------------------------------
\* Values
\* ------------------------------------------------------------------------
\* identifiers that actions are registered under
ActionIds == {"a", "b", "c"}
\* an identifier no action is registered under
MissingAction == "zz"

Range(s) == {s[i] : i \in DOMAIN s}

\* position of x in the sequence s (0 if it does not occur)
Pos(s, x) ==
  IF \E i \in DOMAIN s : s[i] = x THEN CHOOSE i \in DOMAIN s : s[i] = x ELSE 0

\* the JavaScript value undefined, as a result and as an error
UndefinedResult == 0
UndefinedError == [kind |-> "undefined", attempt |-> 0]

\* new Error(`Action ${call.actionId} not found in registry`)
NotFoundError == [kind |-> "not found in registry", attempt |-> 0]
\* new Error(`Action ${call.actionId} has no handler`)
NoHandlerError == [kind |-> "has no handler", attempt |-> 0]
\* the error thrown by the n-th invocation of a handler
HandlerError(n) == [kind |-> "handler", attempt |-> n]

\* if (result.error): an error object is truthy, undefined is not
Truthy(e) == e.kind # "undefined"

\* RetryConfig; an optional retry policy is a sequence of at most one
RetryConfig(n, b, d) == [maxAttempts |-> n, backoff |-> b, delayMs |-> d]
NoRetry == <<>>

\* ActionDefinition, the fields the engine reads
ActionDefinition(deps, h, comp, retry) ==
  [dependencies |-> deps, handler |-> h, compensate |-> comp, retry |-> retry]

\* ActionCall: callId, actionId, args and dependsOn (a missing dependsOn is
\* empty)
ActionCall(id, actionId, args, dependsOn) ==
  [callId |-> id, actionId |-> actionId, args |-> args, dependsOn |-> dependsOn]

VARIABLES
  registry,       \* ActionRegistry.actions: registered id -> definition
  config,         \* DAGExecutor.config
  calls,          \* plan.calls
  pc,             \* where execute is: idle, executing, compensating, done, threw
  batches,        \* const batches = this.buildExecutionOrder(plan.calls)
  batchIdx,       \* index of the batch being executed
  taskState,      \* per call: pending, running, sleeping, settled
  attempts,       \* per call: number of handler invocations so far
  slept,          \* per call: the delays it slept, in order
  batchResults,   \* per settled call: the entry executeBatch returns for it
  completed,      \* call ids in the order their final outcome was reached
  results,        \* execute's results map
  executedCalls,  \* execute's executedCalls
  succeeded,      \* execute's succeeded
  failed,         \* execute's failed
  compLog,        \* compensating handlers invoked, in order
  compIdx,        \* index in reversed of the compensating handler in flight
  compFailed,     \* calls whose compensating handler threw (console.error)
  actionsByTag,   \* ActionRegistry.actionsByTag: tag -> set of action ids
  dependencyGraph,\* ActionRegistry.dependencyGraph: id -> ids depending on it
  locked,         \* ActionRegistry.locked
  lastCall,       \* the last call made on the registry, with its argument
  thrown,         \* the error that call threw, NoError if it returned
  nOps,           \* number of calls made on the registry
  pipelineConfig, \* Pipeline.config
  awaiting,       \* where interpret is: idle, the call it awaits, returned, threw
  trace,          \* interpret's trace
  currentPlan,    \* validateWithRepair's currentPlan
  repairAttempt,  \* validateWithRepair's attempt
  pipelineResult, \* what interpret returned
  messages,       \* roles of the messages updateMemory added
  otherCall,      \* the locals of a second execute call on the same executor
  active,         \* which of the two execute calls the event loop is running
  memoryConfig,   \* ThreeTierMemory.config
  conversations,  \* ThreeTierMemory.conversations: id -> ConversationState
  added,          \* per conversation: the messages added since it was created
  nAdded          \* number of addMessage calls so far

\* the registry besides its definitions, and the record of the calls made
regVars == <<actionsByTag, dependencyGraph, locked, lastCall, thrown, nOps>>

\* the state of one execution
execVars == <<config, calls, pc, batches, batchIdx, taskState, attempts,
              slept, batchResults, completed, results, executedCalls,
              succeeded, failed, compLog, compIdx, compFailed>>

\* the state of one call of Pipeline.interpret
pipeVars == <<pipelineConfig, awaiting, trace, currentPlan, repairAttempt,
              pipelineResult, messages>>

\* a second execute call in progress on the same executor
overlapVars == <<otherCall, active>>

\* a ThreeTierMemory and the record of the messages it was given
memVars == <<memoryConfig, conversations, added, nAdded>>

vars == <<registry, regVars, execVars, pipeVars, overlapVars, memVars>>

CallIds == {calls[i].callId : i \in DOMAIN calls}
CallOf(id) == CHOOSE c \in Range(calls) : c.callId = id

\* this.registry.get(actionId) !== undefined
Registered(actionId) == actionId \in DOMAIN registry

\* ------------------------------------------------------------------------
\* buildExecutionOrder
\* ------------------------------------------------------------------------
\* action?.dependencies ?? []
ActionDeps(actionId) ==
  IF Registered(actionId) THEN registry[actionId].dependencies ELSE <<>>

\* a buildExecutionOrder that resolves an action-level dependency to the
\* first call of the plan that invokes the action
CallDepsFirstCallOnly(cs, call) ==
  call.dependsOn \cup
    {cs[j].callId : j \in {i \in DOMAIN cs :
                             /\ cs[i].actionId \in Range(ActionDeps(call.actionId))
                             /\ \A k \in 1..(i - 1) :
                                  cs[k].actionId # cs[i].actionId}}

\* a buildExecutionOrder that forgets the dependencies of the action
CallDepsExplicitOnly(cs, call) == call.dependsOn

\* a buildExecutionOrder that drops the dependsOn ids that no call of the
\* plan has
CallDepsInPlanOnly(cs, call) ==
  (call.dependsOn \cap {cs[i].callId : i \in DOMAIN cs}) \cup
    {cs[j].callId : j \in {i \in DOMAIN cs :
                             cs[i].actionId \in Range(ActionDeps(call.actionId))}}

\* a buildExecutionOrder that keeps an action-level dependency no call of
\* the plan implements, under the id 0 of no call
CallDepsKeepsUnimplemented(cs, call) ==
  call.dependsOn \cup
    {cs[j].callId : j \in {i \in DOMAIN cs :
                             cs[i].actionId \in Range(ActionDeps(call.actionId))}}
    \cup (IF \E x \in Range(ActionDeps(call.actionId)) :
               \A i \in DOMAIN cs : cs[i].actionId # x
          THEN {0} ELSE {})

\* callDeps: the explicit dependsOn of the call, plus, for every action-level
\* dependency, every call of cs that invokes that action
CallDeps(cs, call) ==
  call.dependsOn \cup
    {cs[j].callId : j \in {i \in DOMAIN cs :
                             cs[i].actionId \in Range(ActionDeps(call.actionId))}}

\* graph: callId -> the call ids it depends on
Graph(cs) == [id \in {cs[i].callId : i \in DOMAIN cs} |->
                CallDeps(cs, CHOOSE c \in Range(cs) : c.callId = id)]

\* an update that takes one off the in-degree of a call per batch it
\* depends on, not one per call of the batch
UpdateInDegreesOncePerBatch(remaining, inDegree, graph, batch) ==
  [id \in DOMAIN inDegree |->
     IF id \in Range(remaining) /\ id \notin Range(batch)
          /\ graph[id] \cap Range(batch) # {}
     THEN inDegree[id] - 1
     ELSE inDegree[id]]

\* the in-degrees once the calls of batch were removed, one after the other,
\* from remaining: a call still in remaining loses one per batch call it
\* depends on
UpdateInDegrees(remaining, inDegree, graph, batch) ==
  [id \in DOMAIN inDegree |->
     inDegree[id] -
       Cardinality({k \in DOMAIN batch :
                      /\ id \in Range(remaining)
                      /\ id \notin {batch[j] : j \in 1..k}
                      /\ batch[k] \in graph[id]})]

\* a loop that, finding no call ready, stops with the batches it has
RECURSIVE KahnLoopKeepsPrefix(_, _, _, _)
KahnLoopKeepsPrefix(remaining, inDegree, graph, acc) ==
  IF remaining = <<>>
  THEN [thrown |-> FALSE, batches |-> acc]
  ELSE LET Ready(id) == inDegree[id] = 0
           batch == SelectSeq(remaining, Ready)
           Left(id) == id \notin Range(batch)
       IN IF batch = <<>>
          THEN [thrown |-> FALSE, batches |-> acc]
          ELSE KahnLoopKeepsPrefix(SelectSeq(remaining, Left),
                 UpdateInDegrees(remaining, inDegree, graph, batch),
                 graph, Append(acc, batch))

\* a loop that takes one ready call per round
RECURSIVE KahnLoopOneAtATime(_, _, _, _)
KahnLoopOneAtATime(remaining, inDegree, graph, acc) ==
  IF remaining = <<>>
  THEN [thrown |-> FALSE, batches |-> acc]
  ELSE LET Ready(id) == inDegree[id] = 0
           ready == SelectSeq(remaining, Ready)
           batch == IF ready = <<>> THEN <<>> ELSE <<Head(ready)>>
           Left(id) == id \notin Range(batch)
       IN IF batch = <<>>
          THEN [thrown |-> TRUE, batches |-> <<>>]
          ELSE KahnLoopOneAtATime(SelectSeq(remaining, Left),
                 UpdateInDegrees(remaining, inDegree, graph, batch),
                 graph, Append(acc, batch))

\* a loop that collects the ready calls of a round from the last to the first
RECURSIVE KahnLoopLastFirst(_, _, _, _)
KahnLoopLastFirst(remaining, inDegree, graph, acc) ==
  IF remaining = <<>>
  THEN [thrown |-> FALSE, batches |-> acc]
  ELSE LET Ready(id) == inDegree[id] = 0
           ready == SelectSeq(remaining, Ready)
           batch == [i \in DOMAIN ready |-> ready[Len(ready) + 1 - i]]
           Left(id) == id \notin Range(batch)
       IN IF batch = <<>>
          THEN [thrown |-> TRUE, batches |-> <<>>]
          ELSE KahnLoopLastFirst(SelectSeq(remaining, Left),
                 UpdateInDegrees(remaining, inDegree, graph, batch),
                 graph, Append(acc, batch))

\* while (remaining.size > 0): remaining is kept in insertion (plan) order
RECURSIVE KahnLoop(_, _, _, _)
KahnLoop(remaining, inDegree, graph, acc) ==
  IF remaining = <<>>
  THEN [thrown |-> FALSE, batches |-> acc]
  ELSE LET Ready(id) == inDegree[id] = 0
           batch == SelectSeq(remaining, Ready)
           Left(id) == id \notin Range(batch)
       IN IF batch = <<>>
          THEN \* throw new Error('Cycle detected in action dependencies')
               [thrown |-> TRUE, batches |-> <<>>]
          ELSE KahnLoop(SelectSeq(remaining, Left),
                        UpdateInDegrees(remaining, inDegree, graph, batch),
                        graph, Append(acc, batch))

\* the batches of call ids, or thrown when no batch can be formed
BuildExecutionOrder(cs) ==
  IF Len(cs) = 0
  THEN [thrown |-> FALSE, batches |-> <<>>]
  ELSE KahnLoop([i \in DOMAIN cs |-> cs[i].callId],
                [id \in DOMAIN Graph(cs) |-> Cardinality(Graph(cs)[id])],
                Graph(cs), <<>>)

\* ------------------------------------------------------------------------
\* executeBatch and executeWithRetry
\* ------------------------------------------------------------------------
\* an executeWithRetry that does not look at enableRetry
EffectiveRetryIgnoresSwitch(actionId) ==
  IF registry[actionId].retry # NoRetry
  THEN registry[actionId].retry
  ELSE config.defaultRetry

\* this.config.enableRetry ? action.retry ?? this.config.defaultRetry : undefined
EffectiveRetry(actionId) ==
  IF config.enableRetry
  THEN IF registry[actionId].retry # NoRetry
       THEN registry[actionId].retry
       ELSE config.defaultRetry
  ELSE NoRetry

RECURSIVE Pow2(_)
Pow2(n) == IF n <= 0 THEN 1 ELSE 2 * Pow2(n - 1)

\* a calculateBackoff whose two formulas use the same attempt index
CalculateBackoffSameIndex(attempt, retryConfig) ==
  IF retryConfig.backoff = "exponential"
  THEN retryConfig.delayMs * Pow2(attempt)
  ELSE retryConfig.delayMs * attempt

\* a calculateBackoff that waits the base delay after every failed attempt
CalculateBackoffFixed(attempt, retryConfig) == retryConfig.delayMs

\* calculateBackoff(attempt, config)
CalculateBackoff(attempt, retryConfig) ==
  IF retryConfig.backoff = "exponential"
  THEN retryConfig.delayMs * Pow2(attempt)
  ELSE retryConfig.delayMs * (attempt + 1)

\* The synchronous part of the async function executeBatch maps over the
\* batch: a call without action or handler settles at once with an error; a
\* retry loop that runs no iteration throws lastError, which is undefined;
\* every other call has its handler invoked a first time.
LaunchTask(id) ==
  LET actionId == CallOf(id).actionId IN
  IF ~Registered(actionId)
  THEN [state |-> "settled", attempts |-> 0,
        entry |-> [result |-> UndefinedResult, error |-> NotFoundError]]
  ELSE IF ~registry[actionId].handler
  THEN [state |-> "settled", attempts |-> 0,
        entry |-> [result |-> UndefinedResult, error |-> NoHandlerError]]
  ELSE IF /\ EffectiveRetry(actionId) # NoRetry
          /\ ~(0 < EffectiveRetry(actionId)[1].maxAttempts)
  THEN [state |-> "settled", attempts |-> 0,
        entry |-> [result |-> UndefinedResult, error |-> UndefinedError]]
  ELSE [state |-> "running", attempts |-> 1,
        entry |-> [result |-> UndefinedResult, error |-> UndefinedError]]

SettledAtLaunch(id) == LaunchTask(id).state = "settled"

\* an executeBatch that maps over every call not launched yet instead of the
\* calls of the batch
LaunchEverything(batch) ==
  LET all == [i \in DOMAIN calls |-> calls[i].callId]
      Due(id) == taskState[id] = "pending"
      DueSettled(id) == Due(id) /\ SettledAtLaunch(id)
  IN /\ taskState' = [id \in DOMAIN taskState |->
                        IF Due(id) THEN LaunchTask(id).state ELSE taskState[id]]
     /\ attempts' = [id \in DOMAIN attempts |->
                       IF Due(id) THEN LaunchTask(id).attempts ELSE attempts[id]]
     /\ batchResults' =
          [id \in DOMAIN batchResults \cup {x \in CallIds : DueSettled(x)} |->
             IF Due(id) THEN LaunchTask(id).entry ELSE batchResults[id]]
     /\ completed' = completed \o SelectSeq(all, DueSettled)

\* const promises = batch.map(async (call) => ...): every call of the batch
\* is launched, in batch order, before any handler can complete
LaunchBatch(batch) ==
  /\ taskState' = [id \in DOMAIN taskState |->
                     IF id \in Range(batch) THEN LaunchTask(id).state
                     ELSE taskState[id]]
  /\ attempts' = [id \in DOMAIN attempts |->
                    IF id \in Range(batch) THEN LaunchTask(id).attempts
                    ELSE attempts[id]]
  /\ batchResults' =
       [id \in DOMAIN batchResults \cup
                 {x \in Range(batch) : SettledAtLaunch(x)} |->
          IF id \in Range(batch) THEN LaunchTask(id).entry ELSE batchResults[id]]
  /\ completed' = completed \o SelectSeq(batch, SettledAtLaunch)

\* execute, up to its first await: buildExecutionOrder, then the first batch
Execute ==
  /\ pc = "idle"
  /\ LET order == BuildExecutionOrder(calls) IN
       IF order.thrown
       THEN \* catch (error) { failed++; ...; throw error; }
            /\ pc' = "threw"
            /\ failed' = failed + 1
            /\ UNCHANGED <<batches, batchIdx, taskState, attempts,
                           batchResults, completed>>
       ELSE /\ batches' = order.batches
            /\ failed' = failed
            /\ IF order.batches = <<>>
               THEN /\ pc' = "done"
                    /\ UNCHANGED <<batchIdx, taskState, attempts,
                                   batchResults, completed>>
               ELSE /\ pc' = "executing"
                    /\ batchIdx' = 1
                    /\ LaunchBatch(order.batches[1])
  /\ UNCHANGED <<regVars, pipeVars, overlapVars, memVars>>
  /\ UNCHANGED <<registry, config, calls, slept, results, executedCalls,
                 succeeded, compLog, compIdx, compFailed>>

\* a handler whose return is held back while a call is sleeping
HandlerReturnAfterSleepers(id) ==
  /\ pc = "executing"
  /\ taskState[id] = "running"
  /\ \A other \in CallIds : taskState[other] # "sleeping"
  /\ taskState' = [taskState EXCEPT ![id] = "settled"]
  /\ batchResults' = batchResults @@
       (id :> [result |-> attempts[id], error |-> UndefinedError])
  /\ completed' = Append(completed, id)
  /\ UNCHANGED <<regVars, pipeVars, overlapVars, memVars>>
  /\ UNCHANGED <<registry, config, calls, pc, batches, batchIdx, attempts,
                 slept, results, executedCalls, succeeded, failed, compLog,
                 compIdx, compFailed>>

\* a handler invocation whose outcome is put in execute's results map as
\* soon as it returns
HandlerReturnPublishes(id) ==
  /\ pc = "executing"
  /\ taskState[id] = "running"
  /\ taskState' = [taskState EXCEPT ![id] = "settled"]
  /\ batchResults' = batchResults @@
       (id :> [result |-> attempts[id], error |-> UndefinedError])
  /\ results' = results @@
       (id :> [result |-> attempts[id], error |-> UndefinedError])
  /\ completed' = Append(completed, id)
  /\ UNCHANGED <<regVars, pipeVars, overlapVars, memVars>>
  /\ UNCHANGED <<registry, config, calls, pc, batches, batchIdx, attempts,
                 slept, executedCalls, succeeded, failed, compLog,
                 compIdx, compFailed>>

\* a handler invocation returns: return await action.handler!(call.args, ctx)
HandlerReturn(id) ==
  /\ pc = "executing"
  /\ taskState[id] = "running"
  /\ taskState' = [taskState EXCEPT ![id] = "settled"]
  /\ batchResults' = batchResults @@
       (id :> [result |-> attempts[id], error |-> UndefinedError])
  /\ completed' = Append(completed, id)
  /\ UNCHANGED <<regVars, pipeVars, overlapVars, memVars>>
  /\ UNCHANGED <<registry, config, calls, pc, batches, batchIdx, attempts,
                 slept, results, executedCalls, succeeded, failed, compLog,
                 compIdx, compFailed>>

\* a retry loop that gives up at the first failure
HandlerThrowGivesUp(id) ==
  /\ pc = "executing"
  /\ taskState[id] = "running"
  /\ taskState' = [taskState EXCEPT ![id] = "settled"]
  /\ batchResults' = batchResults @@
       (id :> [result |-> UndefinedResult,
               error |-> HandlerError(attempts[id])])
  /\ completed' = Append(completed, id)
  /\ UNCHANGED <<regVars, pipeVars, overlapVars, memVars>>
  /\ UNCHANGED <<registry, config, calls, pc, batches, batchIdx, attempts,
                 slept, results, executedCalls, succeeded, failed, compLog,
                 compIdx, compFailed>>

\* an executeBatch without try/catch: the final error of a handler rejects
\* Promise.all and execute rethrows it
HandlerThrowEscapes(id) ==
  /\ pc = "executing"
  /\ taskState[id] = "running"
  /\ pc' = "threw"
  /\ failed' = failed + 1
  /\ UNCHANGED <<regVars, pipeVars, overlapVars, memVars>>
  /\ UNCHANGED <<registry, config, calls, batches, batchIdx, taskState,
                 attempts, slept, batchResults, completed, results,
                 executedCalls, succeeded, compLog, compIdx, compFailed>>

\* a handler invocation throws: without retry policy, or on the last attempt,
\* the error is the call's outcome; otherwise the call sleeps the backoff
HandlerThrow(id) ==
  /\ pc = "executing"
  /\ taskState[id] = "running"
  /\ LET retry == EffectiveRetry(CallOf(id).actionId)
         attempt == attempts[id] - 1
     IN IF retry = NoRetry \/ attempt = retry[1].maxAttempts - 1
        THEN /\ taskState' = [taskState EXCEPT ![id] = "settled"]
             /\ batchResults' = batchResults @@
                  (id :> [result |-> UndefinedResult,
                          error |-> HandlerError(attempts[id])])
             /\ completed' = Append(completed, id)
             /\ slept' = slept
        ELSE /\ taskState' = [taskState EXCEPT ![id] = "sleeping"]
             /\ slept' = [slept EXCEPT
                            ![id] = Append(@, CalculateBackoff(attempt, retry[1]))]
             /\ UNCHANGED <<batchResults, completed>>
  /\ UNCHANGED <<regVars, pipeVars, overlapVars, memVars>>
  /\ UNCHANGED <<registry, config, calls, pc, batches, batchIdx, attempts,
                 results, executedCalls, succeeded, failed, compLog, compIdx,
                 compFailed>>

\* a sleep whose timer never fires
WakeUpNever(id) ==
  /\ FALSE
  /\ UNCHANGED vars

\* the sleep of a call ends: attempt++, and the loop either invokes the
\* handler again or is over and throws lastError
WakeUp(id) ==
  /\ pc = "executing"
  /\ taskState[id] = "sleeping"
  /\ LET retry == EffectiveRetry(CallOf(id).actionId) IN
       IF attempts[id] < retry[1].maxAttempts
       THEN /\ taskState' = [taskState EXCEPT ![id] = "running"]
            /\ attempts' = [attempts EXCEPT ![id] = @ + 1]
            /\ UNCHANGED <<batchResults, completed>>
       ELSE /\ taskState' = [taskState EXCEPT ![id] = "settled"]
            /\ attempts' = attempts
            /\ batchResults' = batchResults @@
                 (id :> [result |-> UndefinedResult,
                         error |-> HandlerError(attempts[id])])
            /\ completed' = Append(completed, id)
  /\ UNCHANGED <<regVars, pipeVars, overlapVars, memVars>>
  /\ UNCHANGED <<registry, config, calls, pc, batches, batchIdx, slept,
                 results, executedCalls, succeeded, failed, compLog, compIdx,
                 compFailed>>

\* ------------------------------------------------------------------------
\* compensate
\* ------------------------------------------------------------------------
\* a compensate that forgets to reverse
ReverseForgotten(s) == s

\* [...executedCalls].reverse()
Reverse(s) == [i \in 1..Len(s) |-> s[Len(s) + 1 - i]]

\* a compensate that does not skip the calls that failed
CompEligibleAlsoFailed(id, res) ==
  /\ Registered(CallOf(id).actionId)
  /\ registry[CallOf(id).actionId].compensate
  /\ id \in DOMAIN res

\* the two guards of the loop of compensate: the action declares a
\* compensating handler, and the call has a result without error
CompEligible(id, res) ==
  /\ Registered(CallOf(id).actionId)
  /\ registry[CallOf(id).actionId].compensate
  /\ id \in DOMAIN res
  /\ ~Truthy(res[id].error)

\* the first index from `from` on that the loop does not skip, 0 if none
NextComp(reversed, res, from) ==
  LET S == {i \in from..Len(reversed) : CompEligible(reversed[i], res)} IN
  IF S = {} THEN 0 ELSE CHOOSE i \in S : \A j \in S : i <= j

\* a compensate that hands the compensating handler no result
RunCompensationWithoutResult(execd, res, from) ==
  LET reversed == Reverse(execd)
      k == NextComp(reversed, res, from)
  IN IF k = 0
     THEN /\ pc' = "done"
          /\ compIdx' = 0
          /\ compLog' = compLog
     ELSE /\ pc' = "compensating"
          /\ compIdx' = k
          /\ compLog' = Append(compLog,
                               [callId |-> reversed[k],
                                args |-> CallOf(reversed[k]).args,
                                result |-> UndefinedResult])

\* a compensate that invokes every compensating handler due without
\* awaiting the one before
RunCompensationAllAtOnce(execd, res, from) ==
  LET reversed == Reverse(execd)
      Due(id) == CompEligible(id, res)
      due == SelectSeq(SubSeq(reversed, from, Len(reversed)), Due)
  IN IF due = <<>>
     THEN /\ pc' = "done"
          /\ compIdx' = 0
          /\ compLog' = compLog
     ELSE /\ pc' = "compensating"
          /\ compIdx' = Len(reversed)
          /\ compLog' = compLog \o
               [i \in DOMAIN due |->
                  [callId |-> due[i], args |-> CallOf(due[i]).args,
                   result |-> res[due[i]].result]]

\* the loop of compensate from index `from` up to its next await: the calls
\* to skip are skipped and the next compensating handler is invoked with the
\* call's args and its recorded result; with none left, execute returns
RunCompensation(execd, res, from) ==
  LET reversed == Reverse(execd)
      k == NextComp(reversed, res, from)
  IN IF k = 0
     THEN /\ pc' = "done"
          /\ compIdx' = 0
          /\ compLog' = compLog
     ELSE /\ pc' = "compensating"
          /\ compIdx' = k
          /\ compLog' = Append(compLog,
                               [callId |-> reversed[k],
                                args |-> CallOf(reversed[k]).args,
                                result |-> res[reversed[k]].result])

\* ------------------------------------------------------------------------
\* execute: the merge of a batch
\* ------------------------------------------------------------------------
\* an execute that compensates whatever the configuration says
EnableCompensationIgnored == TRUE

\* if (this.config.enableCompensation)
EnableCompensation == config.enableCompensation

\* a merge that never sees an error
FirstErrorIgnored(batch) == 0

\* a merge that takes for failures only the errors of handlers that were
\* invoked
FirstErrorOfInvokedOnly(batch) ==
  LET S == {k \in DOMAIN batch : /\ Truthy(batchResults[batch[k]].error)
                                 /\ attempts[batch[k]] > 0}
  IN IF S = {} THEN 0 ELSE CHOOSE k \in S : \A j \in S : k <= j

\* index in batch of the first entry with an error, 0 if there is none
FirstError(batch) ==
  LET S == {k \in DOMAIN batch : Truthy(batchResults[batch[k]].error)} IN
  IF S = {} THEN 0 ELSE CHOOSE k \in S : \A j \in S : k <= j

\* the entries the merge loop of execute goes through before it returns or
\* ends: all of the batch, or those up to the first error
Merged(batch) ==
  IF FirstError(batch) = 0 THEN batch ELSE SubSeq(batch, 1, FirstError(batch))

\* Promise.all(promises) resolves: executeBatch returns the entries in batch
\* order and execute merges them; at the first entry with an error it
\* compensates (if enabled) and returns; without error it goes on with the
\* next batch, or returns after the last
BatchSettled ==
  /\ pc = "executing"
  /\ \A id \in Range(batches[batchIdx]) : taskState[id] = "settled"
  /\ LET batch == batches[batchIdx]
         merged == Merged(batch)
         res == results @@ [id \in Range(merged) |-> batchResults[id]]
         execd == executedCalls \o merged
     IN /\ results' = res
        /\ executedCalls' = execd
        /\ IF FirstError(batch) # 0
           THEN /\ succeeded' = succeeded + (FirstError(batch) - 1)
                /\ failed' = failed + 1
                /\ IF EnableCompensation
                   THEN RunCompensation(execd, res, 1)
                   ELSE /\ pc' = "done"
                        /\ UNCHANGED <<compIdx, compLog>>
                /\ UNCHANGED <<batchIdx, taskState, attempts, batchResults,
                               completed>>
           ELSE /\ succeeded' = succeeded + Len(batch)
                /\ failed' = failed
                /\ UNCHANGED <<compIdx, compLog>>
                /\ IF batchIdx < Len(batches)
                   THEN /\ pc' = "executing"
                        /\ batchIdx' = batchIdx + 1
                        /\ LaunchBatch(batches[batchIdx + 1])
                   ELSE /\ pc' = "done"
                        /\ UNCHANGED <<batchIdx, taskState, attempts,
                                       batchResults, completed>>
  /\ UNCHANGED <<regVars, pipeVars, overlapVars, memVars>>
  /\ UNCHANGED <<registry, config, calls, batches, slept, compFailed>>

\* the compensating handler in flight returns: the loop goes on
CompReturn ==
  /\ pc = "compensating"
  /\ RunCompensation(executedCalls, results, compIdx + 1)
  /\ UNCHANGED <<regVars, pipeVars, overlapVars, memVars>>
  /\ UNCHANGED <<registry, config, calls, batches, batchIdx, taskState,
                 attempts, slept, batchResults, completed, results,
                 executedCalls, succeeded, failed, compFailed>>

\* a compensate whose loop ends at the first compensating handler that throws
CompThrowStops ==
  /\ pc = "compensating"
  /\ compFailed' = compFailed \cup {Reverse(executedCalls)[compIdx]}
  /\ pc' = "done"
  /\ compIdx' = 0
  /\ UNCHANGED <<regVars, pipeVars, overlapVars, memVars>>
  /\ UNCHANGED <<registry, config, calls, batches, batchIdx, taskState,
                 attempts, slept, batchResults, completed, results,
                 executedCalls, succeeded, failed, compLog>>

\* the compensating handler in flight throws: console.error, and the loop
\* goes on
CompThrow ==
  /\ pc = "compensating"
  /\ compFailed' = compFailed \cup {Reverse(executedCalls)[compIdx]}
  /\ RunCompensation(executedCalls, results, compIdx + 1)
  /\ UNCHANGED <<regVars, pipeVars, overlapVars, memVars>>
  /\ UNCHANGED <<registry, config, calls, batches, batchIdx, taskState,
                 attempts, slept, batchResults, completed, results,
                 executedCalls, succeeded, failed>>

\* ------------------------------------------------------------------------
\* ActionRegistry
\* ------------------------------------------------------------------------
\* the fields of an ActionDefinition that register reads: id (the empty
\* string included), whether description and argsSchema are given, and the
\* lists of dependencies and of tags (every definition gives both lists,
\* possibly empty, so the depAction?.dependencies test of
\* detectCircularDependencies is passed by every registered dependency)
RegistryDefinition(id, description, argsSchema, dependencies, tags) ==
  [id |-> id, description |-> description, argsSchema |-> argsSchema,
   dependencies |-> dependencies, tags |-> tags]

\* what a call on the registry threw
NoError == [kind |-> "none"]
\* new Error('Registry is locked; cannot register new actions')
LockedError == [kind |-> "Registry is locked"]
\* new Error('Action must have a string ID')
StringIdError == [kind |-> "must have a string ID"]
\* new Error(`Action "${action.id}" already registered`)
AlreadyRegisteredError(id) == [kind |-> "already registered", id |-> id]
\* new Error(`Action "${action.id}" must have a description`)
DescriptionError(id) == [kind |-> "must have a description", id |-> id]
\* new Error(`Action "${action.id}" must have an argsSchema`)
ArgsSchemaError(id) == [kind |-> "must have an argsSchema", id |-> id]
\* new Error(`Action "${action.id}" depends on "${dep}" which is not
\* registered. Register dependencies before dependents.`)
NotRegisteredError(id, dep) ==
  [kind |-> "which is not registered", id |-> id, dep |-> dep]
\* new CircularDependencyError(cycle)
CircularDependencyError(cycle) ==
  [kind |-> "CircularDependencyError", cycle |-> cycle]

\* the calls recorded in lastCall
NoDefinition == <<>>
NoCall == [op |-> "none", action |-> NoDefinition]
RegisterCall(action) == [op |-> "register", action |-> action]
LockCall == [op |-> "lock", action |-> NoDefinition]

\* a validateLockState that lets every call pass
ValidateLockStateSkipped == NoError

\* validateLockState
ValidateLockState == IF locked THEN LockedError ELSE NoError

\* a validateActionDefinition without the check for a registered identifier
ValidateActionDefinitionAllowsDuplicates(action) ==
  IF action.id = "" THEN StringIdError
  ELSE IF ~action.description THEN DescriptionError(action.id)
  ELSE IF ~action.argsSchema THEN ArgsSchemaError(action.id)
  ELSE NoError

\* validateActionDefinition: the first of its four checks that fails
ValidateActionDefinition(action) ==
  IF action.id = "" THEN StringIdError
  ELSE IF action.id \in DOMAIN registry THEN AlreadyRegisteredError(action.id)
  ELSE IF ~action.description THEN DescriptionError(action.id)
  ELSE IF ~action.argsSchema THEN ArgsSchemaError(action.id)
  ELSE NoError

\* a validateDependencies that looks at the first dependency only
ValidateDependenciesFirstOnly(action) ==
  IF action.dependencies = <<>> \/ action.dependencies[1] \in DOMAIN registry
  THEN NoError
  ELSE NotRegisteredError(action.id, action.dependencies[1])

\* a validateDependencies that accepts every dependency
ValidateDependenciesSkipped(action) == NoError

\* validateDependencies: the first dependency, in declaration order, that is
\* not registered
ValidateDependencies(action) ==
  LET missing == {k \in DOMAIN action.dependencies :
                    action.dependencies[k] \notin DOMAIN registry}
  IN IF missing = {} THEN NoError
     ELSE NotRegisteredError(action.id,
            action.dependencies[CHOOSE k \in missing : \A j \in missing : k <= j])

\* a detectCircularDependencies whose recursive calls share one visited set
\* instead of working on a copy each
RECURSIVE WalkSharedVisited(_, _, _, _)
RECURSIVE WalkSharedVisitedFrom(_, _, _, _)
WalkSharedVisitedFrom(dependencies, i, visited, path) ==
  IF i > Len(dependencies) THEN [error |-> NoError, visited |-> visited]
  ELSE LET dep == dependencies[i]
           walked == IF dep \in DOMAIN registry
                     THEN WalkSharedVisited(dep, registry[dep].dependencies,
                                            visited, path)
                     ELSE [error |-> NoError, visited |-> visited]
       IN IF walked.error # NoError THEN walked
          ELSE WalkSharedVisitedFrom(dependencies, i + 1, walked.visited, path)
WalkSharedVisited(actionId, dependencies, visited, path) ==
  IF actionId \in visited
  THEN [error |-> CircularDependencyError(Append(path, actionId)),
        visited |-> visited]
  ELSE WalkSharedVisitedFrom(dependencies, 1, visited \cup {actionId},
                             Append(path, actionId))
DetectCircularDependenciesSharedVisited(actionId, dependencies, visited, path) ==
  WalkSharedVisited(actionId, dependencies, visited, path).error

\* detectCircularDependencies(actionId, dependencies, visited, path): the
\* loop over the dependencies from index i on gets its own copies of visited
\* and path for every dependency it descends into
RECURSIVE DetectCircularDependencies(_, _, _, _)
RECURSIVE DetectFrom(_, _, _, _)
DetectFrom(dependencies, i, visited, path) ==
  IF i > Len(dependencies) THEN NoError
  ELSE LET dep == dependencies[i]
           found == IF dep \in DOMAIN registry
                    THEN DetectCircularDependencies(
                           dep, registry[dep].dependencies, visited, path)
                    ELSE NoError
       IN IF found # NoError THEN found
          ELSE DetectFrom(dependencies, i + 1, visited, path)
DetectCircularDependencies(actionId, dependencies, visited, path) ==
  IF actionId \in visited
  THEN CircularDependencyError(Append(path, actionId))
  ELSE DetectFrom(dependencies, 1, visited \cup {actionId},
                  Append(path, actionId))

\* the error register throws for the definition: the first of its four
\* validations that fails, NoError when all pass
RegisterError(action) ==
  IF ValidateLockState # NoError THEN ValidateLockState
  ELSE IF ValidateActionDefinition(action) # NoError
  THEN ValidateActionDefinition(action)
  ELSE IF ValidateDependencies(action) # NoError
  THEN ValidateDependencies(action)
  ELSE DetectCircularDependencies(action.id, action.dependencies, {}, <<>>)

\* indexByTags
IndexByTags(action) ==
  [t \in DOMAIN actionsByTag \cup Range(action.tags) |->
     IF t \in Range(action.tags)
     THEN (IF t \in DOMAIN actionsByTag THEN actionsByTag[t] ELSE {})
            \cup {action.id}
     ELSE actionsByTag[t]]

\* a buildDependencyGraph that starts a new set of dependents at every call
BuildDependencyGraphOverwrites(action) ==
  [d \in DOMAIN dependencyGraph \cup Range(action.dependencies) |->
     IF d \in Range(action.dependencies) THEN {action.id}
     ELSE dependencyGraph[d]]

\* buildDependencyGraph: the reverse graph, dependency -> its dependents
BuildDependencyGraph(action) ==
  [d \in DOMAIN dependencyGraph \cup Range(action.dependencies) |->
     IF d \in Range(action.dependencies)
     THEN (IF d \in DOMAIN dependencyGraph THEN dependencyGraph[d] ELSE {})
            \cup {action.id}
     ELSE dependencyGraph[d]]

\* a register that indexes the tags of the definition as soon as the lock
\* check passed, before the other validations
RegisterIndexesFirst(action) ==
  /\ nOps < MaxOps
  /\ nOps' = nOps + 1
  /\ lastCall' = RegisterCall(action)
  /\ thrown' = RegisterError(action)
  /\ actionsByTag' = IF ValidateLockState # NoError THEN actionsByTag
                     ELSE IndexByTags(action)
  /\ IF RegisterError(action) # NoError
     THEN UNCHANGED <<registry, dependencyGraph>>
     ELSE /\ registry' = [id \in DOMAIN registry \cup {action.id} |->
                            IF id = action.id THEN action ELSE registry[id]]
          /\ dependencyGraph' = BuildDependencyGraph(action)
  /\ UNCHANGED locked
  /\ UNCHANGED <<execVars, pipeVars, overlapVars, memVars>>

\* register(action): the validations throw before anything is stored
Register(action) ==
  /\ nOps < MaxOps
  /\ nOps' = nOps + 1
  /\ lastCall' = RegisterCall(action)
  /\ thrown' = RegisterError(action)
  /\ IF RegisterError(action) # NoError
     THEN UNCHANGED <<registry, actionsByTag, dependencyGraph>>
     ELSE /\ registry' = [id \in DOMAIN registry \cup {action.id} |->
                            IF id = action.id THEN action ELSE registry[id]]
          /\ actionsByTag' = IndexByTags(action)
          /\ dependencyGraph' = BuildDependencyGraph(action)
  /\ UNCHANGED locked
  /\ UNCHANGED <<execVars, pipeVars, overlapVars, memVars>>

\* lock()
Lock ==
  /\ nOps < MaxOps
  /\ nOps' = nOps + 1
  /\ lastCall' = LockCall
  /\ thrown' = NoError
  /\ locked' = TRUE
  /\ UNCHANGED <<registry, actionsByTag, dependencyGraph>>
  /\ UNCHANGED <<execVars, pipeVars, overlapVars, memVars>>

\* get(actionId), undefined for an identifier that is not registered
Get(actionId) ==
  IF actionId \in DOMAIN registry THEN registry[actionId] ELSE NoDefinition

\* getDependents(actionId): the elements of the Set kept for the identifier,
\* each once, none for an identifier without entry
GetDependents(actionId) ==
  IF actionId \in DOMAIN dependencyGraph THEN dependencyGraph[actionId] ELSE {}

\* isLocked()
IsLocked == locked

\* the registry an executor is given was populated before: its reverse
\* graph agrees with its definitions, which declare no tags, and no call on
\* it is followed
Populated ==
  /\ actionsByTag = <<>>
  /\ dependencyGraph =
       [d \in UNION {Range(registry[id].dependencies) : id \in DOMAIN registry} |->
          {id \in DOMAIN registry : d \in Range(registry[id].dependencies)}]
  /\ locked = FALSE
  /\ lastCall = NoCall
  /\ thrown = NoError
  /\ nOps = 0

\* ------------------------------------------------------------------------
\* The registries, configurations and plans an execution is drawn from
\* ------------------------------------------------------------------------
Plain(deps) == ActionDefinition(deps, TRUE, TRUE, NoRetry)

Reg(da, db, dc) == ("a" :> da) @@ ("b" :> db) @@ ("c" :> dc)

\* DAGExecutorConfig after the constructor: both switches default to true
Config(comp, retry, default) ==
  [enableCompensation |-> comp, enableRetry |-> retry, defaultRetry |-> default]
DefaultConfig == Config(TRUE, TRUE, NoRetry)

\* the plans of at most MaxCalls calls: call i has callId i and args 100 + i
SeqsUpTo(S, n) == UNION {[1..k -> S] : k \in 0..n}
Plan(actionIds, dependsOn) ==
  [i \in DOMAIN actionIds |-> ActionCall(i, actionIds[i], 100 + i, dependsOn[i])]
NoDependsOn(actionIds) == [i \in DOMAIN actionIds |-> {}]
Injective(f) == \A i, j \in DOMAIN f : f[i] = f[j] => i = j

\* the dependency declarations a registry accepts for a, b, c registered in
\* that order: an action depends on actions registered before it only
DepRegistries ==
  {Reg(Plain(<<>>), Plain(db), Plain(dc)) :
     db \in {<<>>, <<"a">>},
     dc \in {<<>>, <<"a">>, <<"b">>, <<"a", "b">>}}

\* the retry policies of at most MaxAttempts attempts
RetryChoices ==
  {NoRetry} \cup
  {<<RetryConfig(n, b, 500)>> : n \in 0..MaxAttempts,
                                b \in {"linear", "exponential"}}

\* the order a, b, c were registered in
RegistrationOrder == <<"a", "b", "c">>
InRegistrationOrder(f) ==
  \A i, j \in DOMAIN f :
    i < j => Pos(RegistrationOrder, f[i]) <= Pos(RegistrationOrder, f[j])

\* action-level dependencies, several calls of one action, no dependsOn, the
\* calls listed in the order their actions were registered in
DepScenario ==
  \E r \in DepRegistries,
     as \in {f \in SeqsUpTo(ActionIds, MaxCalls) : InRegistrationOrder(f)} :
    /\ registry = r
    /\ config = DefaultConfig
    /\ calls = Plan(as, NoDependsOn(as))

\* explicit dependsOn over calls of different actions, or over two calls of
\* one action and a call of another, each call naming at most one call id,
\* which may be its own, a later call's, or the id 0 of no call of the plan
DependsOnScenario ==
  \E as \in {f \in SeqsUpTo(ActionIds, MaxCalls) : Injective(f)}
              \cup {<<"a", "a", "b">>} :
    \E db \in {<<>>, <<"a">>},
       d \in [DOMAIN as -> {{}} \cup {{j} : j \in 0..Len(as)}] :
      /\ registry = Reg(Plain(<<>>), Plain(db), Plain(<<>>))
      /\ config = DefaultConfig
      /\ calls = Plan(as, d)

\* retry: the policy of action a, the switch and the default of the engine
RetryScenario ==
  \E ra \in RetryChoices, db \in {<<>>, <<"a">>}, er \in BOOLEAN,
     dr \in {NoRetry, <<RetryConfig(MaxAttempts, "linear", 500)>>},
     as \in {<<"a">>, <<"a", "b">>, <<"b", "a">>, <<"a", "a">>,
             <<"a", "a", "b">>} :
    /\ registry = Reg(ActionDefinition(<<>>, TRUE, TRUE, ra), Plain(db),
                      Plain(<<>>))
    /\ config = Config(TRUE, er, dr)
    /\ calls = Plan(as, NoDependsOn(as))

\* handlers and compensating handlers that are missing, actions that are not
\* registered, compensation switched off
CompScenario ==
  \E ca \in BOOLEAN, cb \in BOOLEAN, ec \in BOOLEAN,
     hc \in {<<TRUE, TRUE>>, <<TRUE, FALSE>>, <<FALSE, TRUE>>},
     db \in {<<>>, <<"a">>}, dc \in {<<>>, <<"b">>},
     as \in {f \in SeqsUpTo(ActionIds \cup {MissingAction}, MaxCalls) :
               Injective(f)} :
    /\ registry = Reg(ActionDefinition(<<>>, TRUE, ca, NoRetry),
                      ActionDefinition(db, TRUE, cb, NoRetry),
                      ActionDefinition(dc, hc[1], hc[2], NoRetry))
    /\ config = Config(ec, TRUE, NoRetry)
    /\ calls = Plan(as, NoDependsOn(as))

\* ------------------------------------------------------------------------
\* Two execute calls on one DAGExecutor
\* ------------------------------------------------------------------------
\* what an execute call owns: its plan, its local variables (results,
\* executedCalls, succeeded, failed, batches, the loop position), the
\* promises of its batch and the compensation it runs
Locals ==
  [calls |-> calls, pc |-> pc, batches |-> batches, batchIdx |-> batchIdx,
   taskState |-> taskState, attempts |-> attempts, slept |-> slept,
   batchResults |-> batchResults, completed |-> completed,
   results |-> results, executedCalls |-> executedCalls,
   succeeded |-> succeeded, failed |-> failed, compLog |-> compLog,
   compIdx |-> compIdx, compFailed |-> compFailed]

\* the locals of an execute call that has not run yet: results is a new
\* Map, executedCalls a new array, succeeded and failed are 0
FreshLocals(cs) ==
  LET ids == {cs[i].callId : i \in DOMAIN cs} IN
  [calls |-> cs, pc |-> "idle", batches |-> <<>>, batchIdx |-> 0,
   taskState |-> [id \in ids |-> "pending"], attempts |-> [id \in ids |-> 0],
   slept |-> [id \in ids |-> <<>>], batchResults |-> <<>>,
   completed |-> <<>>, results |-> <<>>, executedCalls |-> <<>>,
   succeeded |-> 0, failed |-> 0, compLog |-> <<>>, compIdx |-> 0,
   compFailed |-> {}]

\* an executor that keeps the result map in a field, the same map for every
\* execute call
ResultsOfExecutor(locals) == results

\* const results = new Map(), a local of execute: the map a continuation of
\* an execute call works on is the one that call created
ResultsOf(locals) == locals.results

\* The event loop runs a continuation of the other execute call: at an
\* await, control leaves the running call with its locals as they are, and
\* the other call goes on with its own
ResumeOther ==
  /\ otherCall.pc \notin {"done", "threw"}
  /\ otherCall' = Locals
  /\ active' = 3 - active
  /\ calls' = otherCall.calls
  /\ pc' = otherCall.pc
  /\ batches' = otherCall.batches
  /\ batchIdx' = otherCall.batchIdx
  /\ taskState' = otherCall.taskState
  /\ attempts' = otherCall.attempts
  /\ slept' = otherCall.slept
  /\ batchResults' = otherCall.batchResults
  /\ completed' = otherCall.completed
  /\ results' = ResultsOf(otherCall)
  /\ executedCalls' = otherCall.executedCalls
  /\ succeeded' = otherCall.succeeded
  /\ failed' = otherCall.failed
  /\ compLog' = otherCall.compLog
  /\ compIdx' = otherCall.compIdx
  /\ compFailed' = otherCall.compFailed
  /\ UNCHANGED <<registry, config, regVars, pipeVars, memVars>>

\* a single execute call
NoOtherExecution ==
  /\ otherCall = [FreshLocals(<<>>) EXCEPT !.pc = "done"]
  /\ active = 1

\* ------------------------------------------------------------------------
\* ThreeTierMemory
\* ------------------------------------------------------------------------
\* config.workingMemoryTurns ?? 5
DefaultWorkingMemoryTurns == 5

\* new ThreeTierMemory(config); a missing workingMemoryTurns is <<>>
ThreeTierMemoryConfig(workingMemoryTurns) ==
  [workingMemoryTurns |->
     IF workingMemoryTurns = <<>> THEN DefaultWorkingMemoryTurns
     ELSE workingMemoryTurns[1]]

\* Message: role and content (the timestamp addMessage adds is left out)
Message(role, content) == [role |-> role, content |-> content]

\* the ConversationState addMessage creates
NewConversation == [turnCount |-> 0, workingMemory |-> <<>>, archivalMemory |-> <<>>]

\* Array.prototype.slice(start): a negative start counts from the end and
\* stops at the first element; -0 is 0, the whole array
Slice(arr, start) ==
  LET len == Len(arr)
      k == IF start < 0
           THEN (IF len + start > 0 THEN len + start ELSE 0)
           ELSE (IF start < len THEN start ELSE len)
  IN SubSeq(arr, k + 1, len)

\* the window of addMessage: beyond maxWorkingMessages messages,
\* workingMemory.slice(-maxWorkingMessages)
Window(workingMemory, maxWorkingMessages) ==
  IF Len(workingMemory) > maxWorkingMessages
  THEN Slice(workingMemory, 0 - maxWorkingMessages)
  ELSE workingMemory

\* addMessage(conversationId, message)
AddMessage(conversationId, message) ==
  /\ nAdded < MaxMessages
  /\ LET conversation == IF conversationId \in DOMAIN conversations
                         THEN conversations[conversationId]
                         ELSE NewConversation
         maxWorkingMessages == memoryConfig.workingMemoryTurns * 2
         updated ==
           [turnCount |-> IF message.role = "user"
                          THEN conversation.turnCount + 1
                          ELSE conversation.turnCount,
            workingMemory |-> Window(Append(conversation.workingMemory, message),
                                     maxWorkingMessages),
            archivalMemory |-> Append(conversation.archivalMemory, message)]
     IN conversations' =
          [c \in DOMAIN conversations \cup {conversationId} |->
             IF c = conversationId THEN updated ELSE conversations[c]]
  /\ added' = [c \in DOMAIN added \cup {conversationId} |->
                 IF c = conversationId
                 THEN (IF c \in DOMAIN added THEN Append(added[c], message)
                       ELSE <<message>>)
                 ELSE added[c]]
  /\ nAdded' = nAdded + 1
  /\ UNCHANGED <<memoryConfig, registry, regVars, execVars, pipeVars, overlapVars>>

\* clearConversation(conversationId)
ClearConversation(conversationId) ==
  /\ conversations' = [c \in DOMAIN conversations \ {conversationId} |->
                         conversations[c]]
  /\ added' = [c \in DOMAIN added \ {conversationId} |-> added[c]]
  /\ UNCHANGED <<memoryConfig, nAdded, registry, regVars, execVars, pipeVars,
                 overlapVars>>

\* getMessagesForLLM(conversationId)
GetMessagesForLLM(conversationId) ==
  IF conversationId \in DOMAIN conversations
  THEN conversations[conversationId].workingMemory
  ELSE <<>>

\* getArchivalMessages(conversationId)
GetArchivalMessages(conversationId) ==
  IF conversationId \in DOMAIN conversations
  THEN conversations[conversationId].archivalMemory
  ELSE <<>>

\* a memory with the default configuration and no conversation
NoMemory ==
  /\ memoryConfig = ThreeTierMemoryConfig(<<>>)
  /\ conversations = <<>>
  /\ added = <<>>
  /\ nAdded = 0

\* ------------------------------------------------------------------------
\* Pipeline.interpret
\* ------------------------------------------------------------------------
\* config.maxCandidates ?? 12
DefaultMaxCandidates == 12

\* the PipelineConfig fields interpret reads: whether a validator, an
\* executor and a memory are configured (no telemetry), maxCandidates,
\* repairMaxRetries and enableAutoRepair
PipelineConfig(validator, executor, memory, maxCandidates, repairMaxRetries, enableAutoRepair) ==
  [validator |-> validator, executor |-> executor, memory |-> memory,
   maxCandidates |-> maxCandidates, repairMaxRetries |-> repairMaxRetries,
   enableAutoRepair |-> enableAutoRepair]

\* a TraceEvent without its timestamp; data is the one number recorded
NoData == <<>>
TraceEvent(stage, status, data) ==
  [stage |-> stage, status |-> status, data |-> data]

\* createPlan: the calls and the clarification of the plan
NoClarification == "undefined"
CreatePlan(planCalls, clarification) ==
  [calls |-> planCalls, clarification |-> clarification]
NoPlan == <<>>

\* assignCallIds: call i gets an identifier of its own
AssignCallIds(actionIds) == Plan(actionIds, NoDependsOn(actionIds))

\* createResult(plan, execution, trace, startTime)
NoExecution == "undefined"
NoResult == <<>>
CreateResult(plan, execution, events) ==
  [plan |-> plan, execution |-> execution, trace |-> events]

\* updateMemory: the roles of the messages added to the conversation
UpdateMemory(plan) ==
  IF ~pipelineConfig.memory THEN messages
  ELSE messages \o <<"user">>
         \o (IF plan.clarification # NoClarification THEN <<"assistant">>
             ELSE <<>>)

\* the candidates of the route stage: the first maxCandidates of the
\* router's, those that are registered
Candidates(routed) ==
  LET n == IF Len(routed) < pipelineConfig.maxCandidates THEN Len(routed)
           ELSE pipelineConfig.maxCandidates
  IN SelectSeq(SubSeq(routed, 1, n), LAMBDA id : id \in DOMAIN registry)

\* the end of interpret once the plan is settled: the validate stage is
\* closed when a validator is configured, the memory is updated and the
\* result is made with execution undefined
Return(plan, events) ==
  /\ trace' = events
  /\ messages' = UpdateMemory(plan)
  /\ pipelineResult' = CreateResult(plan, NoExecution, events)
  /\ awaiting' = "returned"

\* interpret(input, context) up to its first await: router.route
Interpret ==
  /\ awaiting = "idle"
  /\ trace' = <<TraceEvent("normalize", "start", NoData),
                TraceEvent("normalize", "complete", NoData),
                TraceEvent("route", "start", NoData)>>
  /\ awaiting' = "route"
  /\ UNCHANGED <<pipelineConfig, currentPlan, repairAttempt, pipelineResult, messages>>
  /\ UNCHANGED <<registry, regVars, execVars, overlapVars, memVars>>

\* router.route resolved: interpret goes on to interpreter.interpret
RouteReturns(routed) ==
  /\ awaiting = "route"
  /\ trace' = trace \o <<TraceEvent("route", "complete", Len(Candidates(routed))),
                         TraceEvent("interpret", "start", NoData)>>
  /\ awaiting' = "interpret"
  /\ UNCHANGED <<pipelineConfig, currentPlan, repairAttempt, pipelineResult, messages>>
  /\ UNCHANGED <<registry, regVars, execVars, overlapVars, memVars>>

\* interpreter.interpret resolved with calls and possibly a clarification:
\* interpret returns the clarification, or returns the plan when there is
\* no validator or validateWithRepair does not enter its loop, or goes on
\* to validator.validate
InterpretReturns(actionIds, clarification) ==
  /\ awaiting = "interpret"
  /\ LET interpreted == Append(trace, TraceEvent("interpret", "complete",
                                                 Len(actionIds)))
         validating == Append(interpreted, TraceEvent("validate", "start", NoData))
         plan == CreatePlan(AssignCallIds(actionIds), NoClarification)
     IN IF clarification # NoClarification
        THEN /\ Return(CreatePlan(<<>>, clarification), interpreted)
             /\ UNCHANGED <<currentPlan, repairAttempt>>
        ELSE IF ~pipelineConfig.validator
        THEN /\ Return(plan, interpreted)
             /\ UNCHANGED <<currentPlan, repairAttempt>>
        ELSE IF pipelineConfig.repairMaxRetries = 0
        THEN /\ Return(plan, Append(validating,
                                    TraceEvent("validate", "complete", NoData)))
             /\ currentPlan' = plan
             /\ repairAttempt' = 0
        ELSE /\ trace' = validating
             /\ currentPlan' = plan
             /\ repairAttempt' = 0
             /\ awaiting' = "validate"
             /\ UNCHANGED <<pipelineResult, messages>>
  /\ UNCHANGED pipelineConfig
  /\ UNCHANGED <<registry, regVars, execVars, overlapVars, memVars>>

\* validator.validate resolved: validateWithRepair returns the plan when it
\* is valid, the plan emptied with a clarification when repair is off or
\* this was the last repairAttempt, else it goes on to interpreter.repair
ValidateReturns(valid) ==
  /\ awaiting = "validate"
  /\ LET validated(events) == Append(events, TraceEvent("validate", "complete", NoData))
     IN IF valid
        THEN /\ Return(currentPlan, validated(trace))
             /\ UNCHANGED <<currentPlan, repairAttempt>>
        ELSE IF \/ ~pipelineConfig.enableAutoRepair
                \/ repairAttempt = pipelineConfig.repairMaxRetries - 1
        THEN /\ Return(CreatePlan(<<>>, "validation"), validated(trace))
             /\ UNCHANGED <<currentPlan, repairAttempt>>
        ELSE /\ trace' = Append(trace, TraceEvent("repair", "start", repairAttempt + 1))
             /\ awaiting' = "repair"
             /\ UNCHANGED <<currentPlan, repairAttempt, pipelineResult, messages>>
  /\ UNCHANGED pipelineConfig
  /\ UNCHANGED <<registry, regVars, execVars, overlapVars, memVars>>

\* interpreter.repair resolved with a plan: the loop of validateWithRepair
\* validates it in its next round, and returns it when no round is left
RepairReturns(actionIds) ==
  /\ awaiting = "repair"
  /\ LET repaired == CreatePlan(AssignCallIds(actionIds), NoClarification)
         events == Append(trace, TraceEvent("repair", "complete", NoData))
     IN /\ currentPlan' = repaired
        /\ repairAttempt' = repairAttempt + 1
        /\ IF repairAttempt + 1 < pipelineConfig.repairMaxRetries
           THEN /\ trace' = events
                /\ awaiting' = "validate"
                /\ UNCHANGED <<pipelineResult, messages>>
           ELSE Return(repaired, Append(events,
                         TraceEvent("validate", "complete", NoData)))
  /\ UNCHANGED pipelineConfig
  /\ UNCHANGED <<registry, regVars, execVars, overlapVars, memVars>>

\* the awaited call rejected: the catch block records the error and rethrows
AwaitThrows ==
  /\ awaiting \in {"route", "interpret", "validate", "repair"}
  /\ trace' = Append(trace, TraceEvent("error", "failed", NoData))
  /\ awaiting' = "threw"
  /\ UNCHANGED <<pipelineConfig, currentPlan, repairAttempt, pipelineResult, messages>>
  /\ UNCHANGED <<registry, regVars, execVars, overlapVars, memVars>>

\* interpret has not been called
NotInterpreting ==
  /\ awaiting = "idle"
  /\ trace = <<>>
  /\ currentPlan = NoPlan
  /\ repairAttempt = 0
  /\ pipelineResult = NoResult
  /\ messages = <<>>

\* the executor is used on its own, as in its tests: no pipeline call
NoPipeline ==
  /\ pipelineConfig = PipelineConfig(FALSE, TRUE, FALSE, DefaultMaxCandidates,
                                     MaxRepairRetries, TRUE)
  /\ NotInterpreting

\* ------------------------------------------------------------------------
\* The state machine
\* ------------------------------------------------------------------------
\* execute has not been called yet: nothing ran, nothing is recorded
NotStarted ==
  /\ pc = "idle"
  /\ batches = <<>>
  /\ batchIdx = 0
  /\ taskState = [id \in CallIds |-> "pending"]
  /\ attempts = [id \in CallIds |-> 0]
  /\ slept = [id \in CallIds |-> <<>>]
  /\ batchResults = <<>>
  /\ completed = <<>>
  /\ results = <<>>
  /\ executedCalls = <<>>
  /\ succeeded = 0
  /\ failed = 0
  /\ compLog = <<>>
  /\ compIdx = 0
  /\ compFailed = {}

\* the example of the documentation: A and B without dependencies, C
\* depending on A, D depending on A and B, one call of each in any order
ExampleActions == <<"a", "b", "c", "d">>
ExampleScenario ==
  \E as \in {f \in [DOMAIN ExampleActions -> Range(ExampleActions)] :
               Injective(f)} :
    /\ registry = Reg(Plain(<<>>), Plain(<<>>), Plain(<<"a">>))
                    @@ ("d" :> Plain(<<"a", "b">>))
    /\ config = DefaultConfig
    /\ calls = Plan(as, NoDependsOn(as))

Init ==
  /\ \/ DepScenario
     \/ DependsOnScenario
     \/ RetryScenario
     \/ CompScenario
     \/ ExampleScenario
  /\ Populated
  /\ NotStarted
  /\ NoPipeline
  /\ NoOtherExecution
  /\ NoMemory

Next ==
  \/ Execute
  \/ \E id \in CallIds : HandlerReturn(id)
  \/ \E id \in CallIds : HandlerThrow(id)
  \/ \E id \in CallIds : WakeUp(id)
  \/ BatchSettled
  \/ CompReturn
  \/ CompThrow

Spec == Init /\ [][Next]_vars

\* the executions of the plans with dependsOn and of the plans with retry
\* policies
LiveInit ==
  /\ \/ DependsOnScenario
     \/ RetryScenario
  /\ Populated
  /\ NotStarted
  /\ NoPipeline
  /\ NoOtherExecution
  /\ NoMemory

\* execute is called, handlers and compensating handlers terminate and
\* timers fire: a step that can be taken is eventually taken
LiveSpec == LiveInit /\ [][Next]_vars /\ WF_vars(Next)

\* ------------------------------------------------------------------------
\* Executions that follow whole retry loops
\* ------------------------------------------------------------------------
\* action a declares a policy of up to MaxBackoffAttempts attempts, action b
\* none and falls under the default policy of the engine, which is linear
BackoffScenario ==
  \E n \in 1..MaxBackoffAttempts, b \in {"linear", "exponential"},
     d \in {500, 1000}, db \in {<<>>, <<"a">>},
     as \in {<<"a">>, <<"a", "b">>, <<"b", "a">>} :
    /\ registry = Reg(ActionDefinition(<<>>, TRUE, TRUE, <<RetryConfig(n, b, d)>>),
                      Plain(db), Plain(<<>>))
    /\ config = Config(TRUE, TRUE,
                       <<RetryConfig(MaxBackoffAttempts, "linear", 500)>>)
    /\ calls = Plan(as, NoDependsOn(as))

BackoffInit ==
  /\ BackoffScenario
  /\ Populated
  /\ NotStarted
  /\ NoPipeline
  /\ NoOtherExecution
  /\ NoMemory

BackoffSpec == BackoffInit /\ [][Next]_vars

\* ------------------------------------------------------------------------
\* The calls made on a registry
\* ------------------------------------------------------------------------
\* the lists of dependencies and of tags a definition is given
DependencyLists ==
  {<<>>} \cup {<<x>> : x \in ActionIds} \cup {<<x, y>> : x, y \in ActionIds}
TagLists == {<<>>, <<"t">>, <<"t", "u">>}

\* the definitions register is called with: every identifier with every
\* list of dependencies and of tags, and definitions without identifier,
\* description or argsSchema
Definitions ==
  {RegistryDefinition(id, TRUE, TRUE, deps, tags) :
     id \in ActionIds, deps \in DependencyLists, tags \in TagLists}
  \cup {RegistryDefinition("", TRUE, TRUE, deps, <<>>) : deps \in {<<>>, <<"c">>}}
  \cup {RegistryDefinition("a", d[1], d[2], deps, <<>>) :
          d \in {<<FALSE, TRUE>>, <<TRUE, FALSE>>, <<FALSE, FALSE>>},
          deps \in {<<>>, <<"c">>}}

\* new ActionRegistry(), no executor running
RegistryInit ==
  /\ registry = <<>>
  /\ actionsByTag = <<>>
  /\ dependencyGraph = <<>>
  /\ locked = FALSE
  /\ lastCall = NoCall
  /\ thrown = NoError
  /\ nOps = 0
  /\ config = DefaultConfig
  /\ calls = <<>>
  /\ NotStarted
  /\ NoPipeline
  /\ NoOtherExecution
  /\ NoMemory

RegistryNext ==
  \/ \E action \in Definitions : Register(action)
  \/ Lock

RegistrySpec == RegistryInit /\ [][RegistryNext]_vars

\* ------------------------------------------------------------------------
\* One call of Pipeline.interpret
\* ------------------------------------------------------------------------
\* what the router, the interpreter and its repair come back with: action
\* identifiers, registered or not
RoutedCandidates == {<<>>, <<"a">>, <<"a", "zz">>, <<"c", "b", "a">>}
InterpretedCalls == {<<>>, <<"a">>, <<"a", "b">>, <<"b", "zz">>}

\* a pipeline over a populated registry, with or without validator,
\* executor and memory; the executor, when there is one, has run nothing
PipelineInit ==
  /\ registry = Reg(Plain(<<>>), Plain(<<>>), Plain(<<"a">>))
  /\ Populated
  /\ config = DefaultConfig
  /\ calls = <<>>
  /\ NotStarted
  /\ \E validator, executor, memory, enableAutoRepair \in BOOLEAN :
       \E maxCandidates \in {1, DefaultMaxCandidates} :
         \E repairMaxRetries \in 0..MaxRepairRetries :
           pipelineConfig = PipelineConfig(validator, executor, memory,
                              maxCandidates, repairMaxRetries, enableAutoRepair)
  /\ NotInterpreting
  /\ NoOtherExecution
  /\ NoMemory

PipelineNext ==
  \/ Interpret
  \/ \E routed \in RoutedCandidates : RouteReturns(routed)
  \/ \E actionIds \in InterpretedCalls :
       \E clarification \in {NoClarification, "interpreter"} :
         InterpretReturns(actionIds, clarification)
  \/ \E valid \in BOOLEAN : ValidateReturns(valid)
  \/ \E actionIds \in InterpretedCalls : RepairReturns(actionIds)
  \/ AwaitThrows

PipelineSpec == PipelineInit /\ [][PipelineNext]_vars

\* ------------------------------------------------------------------------
\* Notions the properties are stated with
\* ------------------------------------------------------------------------
\* call c depends directly on call d: d is named by c's dependsOn, or d
\* invokes an action that the action of c declares as a dependency
DependsDirectly(c, d) ==
  \/ d.callId \in c.dependsOn
  \/ /\ c.actionId \in DOMAIN registry
     /\ \E k \in DOMAIN registry[c.actionId].dependencies :
          registry[c.actionId].dependencies[k] = d.actionId

DirectDependencies(id) ==
  {d.callId : d \in {x \in Range(calls) : DependsDirectly(CallOf(id), x)}}

RECURSIVE Closure(_, _)
Closure(S, n) ==
  IF n = 0 THEN S
  ELSE Closure(S \cup UNION {DirectDependencies(x) : x \in S}, n - 1)

\* the calls of the plan that call id depends on, transitively
Dependencies(id) == Closure(DirectDependencies(id), Len(calls))

\* the call-level dependency graph has a cycle
HasCycle == \E id \in CallIds : id \in Dependencies(id)

\* some dependsOn names a call id that no call of the plan has
HasDanglingDependsOn ==
  \E c \in Range(calls) : ~(c.dependsOn \subseteq CallIds)

\* the handler of the call was invoked at least once
Started(id) == attempts[id] > 0

\* the result map of execute holds a success for the call
RecordedSuccess(id) == id \in DOMAIN results /\ ~Truthy(results[id].error)

\* the call reached its final outcome, and which
Settled(id) == taskState[id] = "settled"
SettledOk(id) == Settled(id) /\ ~Truthy(batchResults[id].error)
SettledError(id) == Settled(id) /\ Truthy(batchResults[id].error)

\* the batch of the computed execution order that holds the call (0 if none)
BatchOf(id) ==
  IF \E k \in DOMAIN batches : id \in Range(batches[k])
  THEN CHOOSE k \in DOMAIN batches : id \in Range(batches[k])
  ELSE 0

\* the call ids of the compensating handlers invoked, in order
Compensated == [i \in DOMAIN compLog |-> compLog[i].callId]

\* ------------------------------------------------------------------------
\* Properties
\* ------------------------------------------------------------------------
\* C1: the handler of a call is never started before every call it depends
\* on, transitively, through dependsOn and through the dependencies of its
\* action, has a success recorded in the result map.
C1_StartedAfterDependencies ==
  \A id \in CallIds :
    Started(id) => \A d \in Dependencies(id) : RecordedSuccess(d)

\* a call was started that depends on a call through dependsOn, and through
\* that call only on a third one, by the dependencies of an action
C1_Witness ==
  \E id \in CallIds :
    /\ Started(id)
    /\ \E d \in CallOf(id).dependsOn \cap CallIds :
         \E e \in DirectDependencies(d) :
           /\ e \notin CallOf(d).dependsOn
           /\ e \notin DirectDependencies(id)

\* the action of the call is registered and declares a compensating handler
DeclaresCompensate(id) ==
  /\ CallOf(id).actionId \in DOMAIN registry
  /\ registry[CallOf(id).actionId].compensate

\* C2, as stated: compensating handlers are invoked in strict reverse order
\* of completion, of two compensated calls the one whose handler completed
\* later being compensated first, within one batch as across batches.
C2_ReverseCompletionOrder ==
  \A i, j \in DOMAIN compLog :
    i < j => Pos(completed, Compensated[i]) > Pos(completed, Compensated[j])

\* C2, amended: compensating handlers are invoked in reverse order of
\* recording: of two compensated calls, the call of the later batch is
\* compensated first, and of two calls of one batch the call later in the
\* plan is compensated first, whatever the order their handlers completed in.
C2_ReverseRecordedOrder ==
  \A i, j \in DOMAIN compLog :
    i < j =>
      \/ BatchOf(Compensated[i]) > BatchOf(Compensated[j])
      \/ /\ BatchOf(Compensated[i]) = BatchOf(Compensated[j])
         /\ Pos(executedCalls, Compensated[i]) > Pos(executedCalls, Compensated[j])
         /\ \E m, n \in DOMAIN calls :
              /\ calls[m].callId = Compensated[i]
              /\ calls[n].callId = Compensated[j]
              /\ m > n

\* two calls of one batch were compensated, the one compensated first having
\* completed before the other
C2_Witness ==
  \E i, j \in DOMAIN compLog :
    /\ i < j
    /\ BatchOf(Compensated[i]) = BatchOf(Compensated[j])
    /\ Pos(completed, Compensated[i]) < Pos(completed, Compensated[j])

\* C3: when a call of a batch fails, the siblings whose handlers are running
\* in that batch run to completion, their outcomes are recorded in the
\* returned map, and each sibling that succeeded and declares a compensating
\* handler is compensated.
C3_SiblingsRecordedAndCompensated ==
  (pc = "done" /\ failed > 0) =>
    \A id \in Range(batches[batchIdx]) :
      Started(id) =>
        /\ Settled(id)
        /\ id \in DOMAIN results
        /\ (config.enableCompensation /\ SettledOk(id) /\ DeclaresCompensate(id))
             => id \in Range(Compensated)

\* the calls of the plan form a chain in plan order: each call depends
\* directly on the call before it, and on earlier calls only
ChainPlan ==
  /\ ~HasDanglingDependsOn
  /\ \A i \in DOMAIN calls :
       /\ calls[i].callId = i
       /\ i > 1 => (i - 1) \in DirectDependencies(i)
       /\ \A d \in DirectDependencies(i) : d < i

\* C4: in a chain of dependent calls c1 -> ... -> cn of actions that all
\* declare a compensating handler, with ck the call that fails, execute
\* returns succeeded = k-1 and failed = 1, compensation invokes the handlers
\* of c(k-1), ..., c1 in that order, once each, and ck and the later calls
\* are not compensated (the later calls are not even started).
C4_ChainCompensation ==
  (/\ pc = "done"
   /\ ChainPlan
   /\ config.enableCompensation
   /\ \A id \in CallIds : DeclaresCompensate(id)
   /\ \E id \in CallIds : SettledError(id))
  => LET k == CHOOSE id \in CallIds : SettledError(id) IN
       /\ succeeded = k - 1
       /\ failed = 1
       /\ Compensated = [i \in 1..(k - 1) |-> k - i]
       /\ \A j \in CallIds : j > k => ~Started(j) /\ taskState[j] = "pending"

\* A, B, C with C failing: B then A were compensated
C4_Witness ==
  /\ pc = "done"
  /\ ChainPlan
  /\ \A id \in CallIds : DeclaresCompensate(id)
  /\ Len(calls) = 3
  /\ SettledError(3)
  /\ Started(3)
  /\ succeeded = 2
  /\ failed = 1
  /\ Compensated = <<2, 1>>

\* C5: when execute returns, succeeded is the number of calls whose final
\* outcome is a success, failed the number of calls whose final outcome is an
\* error, and the returned map has an entry for exactly the calls that ran.
C5_CountsMatchOutcomes ==
  pc = "done" =>
    /\ succeeded = Cardinality({id \in CallIds : SettledOk(id)})
    /\ failed = Cardinality({id \in CallIds : SettledError(id)})
    /\ DOMAIN results = {id \in CallIds : taskState[id] # "pending"}

\* a handler is invoked for the call under a retry policy of at least one
\* attempt, and the maxAttempts of that policy
HasPolicy(id) ==
  /\ Registered(CallOf(id).actionId)
  /\ registry[CallOf(id).actionId].handler
  /\ EffectiveRetry(CallOf(id).actionId) # NoRetry
  /\ EffectiveRetry(CallOf(id).actionId)[1].maxAttempts >= 1
PolicyAttempts(id) == EffectiveRetry(CallOf(id).actionId)[1].maxAttempts

C7_CompensationFailureContained ==
  compFailed # {} =>
    /\ pc \in {"compensating", "done"}
    /\ pc = "done" =>
         \A id \in CallIds :
           (RecordedSuccess(id) /\ DeclaresCompensate(id)) =>
             Cardinality({i \in DOMAIN compLog : Compensated[i] = id}) = 1

\* execute returned after a compensating handler failed and a later one ran
C7_Witness ==
  /\ pc = "done"
  /\ \E i, j \in DOMAIN compLog : i < j /\ Compensated[i] \in compFailed

\* C8: once a call of batch i has failed, its retries exhausted, no call of
\* a batch j > i is ever started.
C8_NoBatchAfterFailure ==
  \A x, y \in CallIds :
    (SettledError(x) /\ BatchOf(y) > BatchOf(x)) =>
      taskState[y] = "pending" /\ ~Started(y)

\* execute returned after the handler of a call failed, and a call of a
\* later batch exists
C8_Witness ==
  /\ pc = "done"
  /\ \E x, y \in CallIds :
       SettledError(x) /\ Started(x) /\ BatchOf(y) > BatchOf(x)

\* C9: with a cycle in the call-level dependencies execute fails as a whole
\* and no handler and no compensating handler of any call is invoked.
C9_CycleFatal ==
  HasCycle =>
    /\ pc \in {"idle", "threw"}
    /\ \A id \in CallIds : ~Started(id) /\ taskState[id] = "pending"
    /\ compLog = <<>>
    /\ results = <<>>

\* execute threw on a plan with a cycle and a call that has a handler and
\* neither is on the cycle nor depends on it
C9_Witness ==
  /\ pc = "threw"
  /\ HasCycle
  /\ \E id \in CallIds :
       /\ Dependencies(id) = {}
       /\ Registered(CallOf(id).actionId)
       /\ registry[CallOf(id).actionId].handler

Launched(id) == taskState[id] # "pending"

\* the action of the call is not registered, or is registered without handler
Unrunnable(id) ==
  \/ ~Registered(CallOf(id).actionId)
  \/ ~registry[CallOf(id).actionId].handler

\* C11: a call of an action absent from the registry is recorded as failed
\* with the not-found error, a call of an action without handler with the
\* no-handler error; no handler is invoked for such a call, it contributes
\* exactly one failure to the count, and it is not compensated.
C11_UnrunnableCallFails ==
  pc = "done" =>
    /\ \A id \in CallIds :
         (Launched(id) /\ Unrunnable(id)) =>
           /\ ~Started(id)
           /\ id \in DOMAIN results
           /\ results[id].error =
                IF Registered(CallOf(id).actionId) THEN NoHandlerError
                ELSE NotFoundError
           /\ id \notin Range(Compensated)
    /\ failed >= Cardinality({id \in CallIds : Launched(id) /\ Unrunnable(id)})

C13_NoCompensationWhenDisabled ==
  ~config.enableCompensation =>
    /\ compLog = <<>>
    /\ pc # "compensating"
    /\ \A x, y \in CallIds :
         (SettledError(x) /\ BatchOf(y) > BatchOf(x)) => ~Launched(y)
    /\ (pc = "done" /\ failed > 0) =>
         \E x \in CallIds :
           /\ SettledError(x)
           /\ BatchOf(x) = batchIdx
           /\ \A y \in CallIds : Launched(y) => BatchOf(y) <= BatchOf(x)

\* with compensation disabled, execute returned after a handler failed: a
\* call of an earlier batch had succeeded and declares a compensating
\* handler, and a call of a later batch was not started
C13_Witness ==
  /\ ~config.enableCompensation
  /\ pc = "done"
  /\ \E x, y, z \in CallIds :
       /\ RecordedSuccess(x) /\ Started(x) /\ DeclaresCompensate(x)
       /\ SettledError(y) /\ Started(y) /\ BatchOf(y) > BatchOf(x)
       /\ BatchOf(z) > BatchOf(y) /\ ~Launched(z)

\* the action of the call is registered with a handler
Runnable(id) == ~Unrunnable(id)

\* the retry policy the configuration and the action of the call give it,
\* from their three declarations
DeclaredPolicy(id) ==
  LET own == registry[CallOf(id).actionId].retry IN
  CASE ~config.enableRetry -> NoRetry
    [] config.enableRetry /\ own # NoRetry -> own
    [] config.enableRetry /\ own = NoRetry -> config.defaultRetry

\* C14: the effective retry policy of a call is none when enableRetry is
\* false, whatever the action and defaultRetry declare; otherwise the policy
\* of the action when it declares one; otherwise defaultRetry.  The handler
\* is invoked, sleeps and fails as that policy says, and with no effective
\* policy it is invoked exactly once and its first failure is the outcome.
C14_EffectiveRetryPolicy ==
  \A id \in CallIds :
    (Runnable(id) /\ Launched(id)) =>
      IF DeclaredPolicy(id) = NoRetry
      THEN /\ attempts[id] = 1
           /\ slept[id] = <<>>
           /\ taskState[id] # "sleeping"
           /\ SettledError(id) => batchResults[id].error = HandlerError(1)
      ELSE LET policy == DeclaredPolicy(id)[1] IN
           /\ attempts[id] <= policy.maxAttempts
           /\ SettledError(id) =>
                /\ attempts[id] = policy.maxAttempts
                /\ Len(slept[id]) = policy.maxAttempts - 1
           /\ \A k \in DOMAIN slept[id] :
                slept[id][k] = CalculateBackoff(k - 1, policy)

\* with retry enabled and a default policy of several attempts, a call of an
\* action declaring a policy of one attempt failed after one invocation and
\* a call of an action declaring none failed after all attempts of the
\* default policy
C14_Witness ==
  /\ config.enableRetry
  /\ config.defaultRetry # NoRetry
  /\ \E x, y \in CallIds :
       /\ Runnable(x) /\ Runnable(y)
       /\ registry[CallOf(x).actionId].retry # NoRetry
       /\ registry[CallOf(x).actionId].retry[1].maxAttempts = 1
       /\ SettledError(x) /\ attempts[x] = 1
       /\ registry[CallOf(y).actionId].retry = NoRetry
       /\ config.defaultRetry[1].maxAttempts > 1
       /\ SettledError(y) /\ attempts[y] = config.defaultRetry[1].maxAttempts

\* a handler is invoked for the call under a declared retry policy
Retried(id) == Runnable(id) /\ DeclaredPolicy(id) # NoRetry

\* the delays a call slept agree with its policy, the failed attempts being
\* numbered from `first` in both formulas
DelaysFollow(id, first) ==
  LET policy == DeclaredPolicy(id)[1] IN
  \A k \in DOMAIN slept[id] :
    slept[id][k] =
      IF policy.backoff = "linear"
      THEN policy.delayMs * (first + k - 1)
      ELSE policy.delayMs * Pow2(first + k - 1)

\* C15, as stated: the delay after a failed attempt is base * attemptIndex
\* for a linear policy and base * 2^attemptIndex for an exponential one, with
\* the same index of the failed attempt (counted from 0, or from 1) in both.
C15_SameIndexBackoff ==
  \E first \in {0, 1} :
    \A id \in CallIds : Retried(id) => DelaysFollow(id, first)

\* C15, amended: after the failed attempt of zero-based index i a call
\* sleeps base * (i + 1) under a linear policy and base * 2^i under an
\* exponential one; it sleeps after every failed attempt but the last.
C15_BackoffDelays ==
  \A id \in CallIds :
    Retried(id) =>
      LET policy == DeclaredPolicy(id)[1] IN
      /\ \A k \in DOMAIN slept[id] :
           slept[id][k] =
             IF policy.backoff = "linear"
             THEN policy.delayMs * ((k - 1) + 1)
             ELSE policy.delayMs * Pow2(k - 1)
      /\ Len(slept[id]) =
           IF taskState[id] = "sleeping" THEN attempts[id]
           ELSE IF attempts[id] = 0 THEN 0 ELSE attempts[id] - 1

\* a call under a linear policy and a call under an exponential policy have
\* each slept after three failed attempts
C15_Witness ==
  \E x, y \in CallIds :
    /\ Retried(x) /\ Retried(y)
    /\ DeclaredPolicy(x)[1].backoff = "linear"
    /\ DeclaredPolicy(y)[1].backoff = "exponential"
    /\ Len(slept[x]) >= 3
    /\ Len(slept[y]) >= 3

\* C16: batches run strictly sequentially: no call of a later batch is
\* started before every call of the batches before it has reached its final
\* outcome, success or failure after all its retries.
C16_BatchesSequential ==
  \A x, y \in CallIds :
    (BatchOf(x) > 0 /\ BatchOf(y) > BatchOf(x) /\ Launched(y)) =>
      /\ Settled(x)
      /\ taskState[x] \notin {"running", "sleeping"}
      /\ x \in DOMAIN results

\* a call of the second batch was started after the two calls of the first
\* batch had completed, the first of them after retries and after the other
C16_Witness ==
  \E x, y, z \in CallIds :
    /\ BatchOf(x) = BatchOf(y) /\ x # y /\ BatchOf(z) > BatchOf(x)
    /\ Started(z)
    /\ slept[x] # <<>>
    /\ Pos(completed, y) < Pos(completed, x)

\* the plan can be scheduled, and has been
Scheduled == pc \notin {"idle", "threw"}

\* C17, as stated: two calls with no dependency relationship between them,
\* neither depending on the other even transitively, are placed in the same
\* batch.
C17_UnrelatedCallsShareBatch ==
  Scheduled =>
    \A x, y \in CallIds :
      (x \notin Dependencies(y) /\ y \notin Dependencies(x)) =>
        BatchOf(x) = BatchOf(y)

\* C17, amended: the calls of one batch run concurrently.  Calls without any
\* dependency are placed together in the first batch; all calls of a batch
\* are started together, so none of them waits for another and each is
\* started before any of them completes; and while a call sleeps in retry
\* backoff a sibling that is running can complete, with a value or an error.
C17_BatchRunsConcurrently ==
  /\ Scheduled =>
       \A x \in CallIds : DirectDependencies(x) = {} => BatchOf(x) = 1
  /\ \A x, y \in CallIds :
       (BatchOf(x) > 0 /\ BatchOf(x) = BatchOf(y)) =>
         /\ Launched(x) <=> Launched(y)
         /\ (pc = "executing" /\ x # y /\ taskState[y] = "running"
               /\ taskState[x] \in {"running", "sleeping"}) =>
              /\ ENABLED HandlerReturn(y)
              /\ ENABLED HandlerThrow(y)

\* a call is sleeping in retry backoff and a sibling listed after it in the
\* plan has been started and has completed
C17_Witness ==
  \E x, y \in CallIds :
    /\ BatchOf(x) > 0 /\ BatchOf(x) = BatchOf(y)
    /\ x < y
    /\ taskState[x] = "sleeping"
    /\ Started(y) /\ SettledOk(y)

\* the calls of the plan that invoke an action the action of the call
\* declares as a dependency
CallsOfDependencyActions(id) ==
  {d \in CallIds :
     /\ Registered(CallOf(id).actionId)
     /\ \E k \in DOMAIN registry[CallOf(id).actionId].dependencies :
          registry[CallOf(id).actionId].dependencies[k] = CallOf(d).actionId}

\* C18: a dependency of the action of a call on action X makes the call
\* depend on every call of the plan that invokes X: without any dependsOn,
\* the call is started only after all of them, not just one, have succeeded.
C18_AllCallsOfDependencyAction ==
  \A id \in CallIds :
    (CallOf(id).dependsOn = {} /\ Launched(id)) =>
      \A d \in CallsOfDependencyActions(id) :
        /\ SettledOk(d)
        /\ RecordedSuccess(d)
        /\ BatchOf(d) < BatchOf(id)

\* a call without dependsOn was started after two calls of the action its
\* action depends on had both succeeded, the second of the plan first
C18_Witness ==
  \E id, d, e \in CallIds :
    /\ CallOf(id).dependsOn = {}
    /\ Started(id)
    /\ {d, e} \subseteq CallsOfDependencyActions(id)
    /\ d < e
    /\ CallOf(d).actionId = CallOf(e).actionId
    /\ Started(d) /\ Started(e)
    /\ Pos(completed, e) < Pos(completed, d)

\* the plan is the example of the documentation, and the actions its
\* batches hold
IsExample ==
  /\ DOMAIN registry = Range(ExampleActions)
  /\ Len(calls) = Len(ExampleActions)
BatchActions ==
  [k \in DOMAIN batches |-> {CallOf(id).actionId : id \in Range(batches[k])}]

RegistersUnknownDependency ==
  /\ nOps' = nOps + 1
  /\ lastCall'.op = "register"
  /\ \E k \in DOMAIN lastCall'.action.dependencies :
       lastCall'.action.dependencies[k] \notin DOMAIN registry

\* the definition passes the checks made before the dependencies are looked
\* at: it has an identifier that is not registered yet, a description and
\* an argsSchema
OtherwiseValid(action) ==
  /\ action.id # ""
  /\ action.id \notin DOMAIN registry
  /\ action.description
  /\ action.argsSchema

\* the first dependency of the definition, in the order declared, that is
\* not registered
FirstMissing(action) ==
  LET k == CHOOSE i \in DOMAIN action.dependencies :
             /\ action.dependencies[i] \notin DOMAIN registry
             /\ \A j \in 1..(i - 1) : action.dependencies[j] \in DOMAIN registry
  IN action.dependencies[k]

\* C20 as stated: from every registry state, register of a definition that
\* declares a dependency not already registered fails with the
\* unknown-dependency error naming the missing dependency.
C20_AlwaysUnknownDependencyError ==
  [][RegistersUnknownDependency =>
       /\ thrown'.kind = "which is not registered"
       /\ thrown'.dep \notin DOMAIN registry]_vars

\* C20 as the code has it: register of a definition that declares a
\* dependency not already registered always fails and leaves the registry as
\* it was; when the registry is not locked and the definition is otherwise
\* valid the error is the unknown-dependency error naming the definition and
\* its first missing dependency, else it is the error of the lock check or
\* of the definition check, which come first. So a definition only enters
\* the registry when all its dependencies were registered before it.
C20_UnknownDependencyFails ==
  [][/\ RegistersUnknownDependency =>
          /\ thrown' # NoError
          /\ UNCHANGED <<registry, actionsByTag, dependencyGraph, locked>>
          /\ (~locked /\ OtherwiseValid(lastCall'.action)) =>
               thrown' = NotRegisteredError(lastCall'.action.id,
                                            FirstMissing(lastCall'.action))
          /\ locked => thrown' = LockedError
          /\ (~locked /\ ~OtherwiseValid(lastCall'.action)) =>
               thrown'.kind \in {"must have a string ID", "already registered",
                                 "must have a description",
                                 "must have an argsSchema"}
     /\ \A id \in DOMAIN registry' \ DOMAIN registry :
          \A k \in DOMAIN registry'[id].dependencies :
            /\ registry'[id].dependencies[k] \in DOMAIN registry
            /\ registry'[id].dependencies[k] # id]_vars

\* register was refused, on an unlocked registry that holds actions, a valid
\* definition whose first dependency is registered and whose second is not
C20_Witness ==
  /\ lastCall.op = "register"
  /\ ~locked
  /\ registry # <<>>
  /\ Len(lastCall.action.dependencies) = 2
  /\ lastCall.action.dependencies[1] \in DOMAIN registry
  /\ lastCall.action.dependencies[2] \notin DOMAIN registry
  /\ lastCall.action.id \notin DOMAIN registry
  /\ thrown = NotRegisteredError(lastCall.action.id,
                                 lastCall.action.dependencies[2])

\* ------------------------------------------------------------------------
\* C21
\* ------------------------------------------------------------------------
\* the step is the cycle rejection scenario: on an unlocked registry that
\* holds an action without dependencies (base), register is called with an
\* otherwise valid definition (loop) whose only dependency is itself
RegistersSelfReference ==
  /\ nOps' = nOps + 1
  /\ lastCall'.op = "register"
  /\ ~locked
  /\ \E base \in DOMAIN registry : registry[base].dependencies = <<>>
  /\ OtherwiseValid(lastCall'.action)
  /\ lastCall'.action.dependencies = <<lastCall'.action.id>>

\* C21: after base (no dependencies) is registered, registering loop with
\* dependencies ["loop"] fails with CircularDependencyError, before any
\* execution is attempted.
C21_SelfReferenceIsCircular ==
  [][RegistersSelfReference =>
       /\ thrown'.kind = "CircularDependencyError"
       /\ lastCall'.action.id \notin DOMAIN registry'
       /\ pc' = "idle"]_vars

\* ------------------------------------------------------------------------
\* C22
\* ------------------------------------------------------------------------
\* the step is a call of register that threw
RegisterFailed ==
  /\ nOps' = nOps + 1
  /\ lastCall'.op = "register"
  /\ thrown' # NoError

\* C22: a failed register call is never partial: whatever the reason, the
\* stored definitions, the tag index, the reverse-dependency index and the
\* lock flag are exactly what they were before the call.
C22_FailedRegisterNeverPartial ==
  [][RegisterFailed =>
       /\ registry' = registry
       /\ actionsByTag' = actionsByTag
       /\ dependencyGraph' = dependencyGraph
       /\ locked' = locked]_vars

\* register was refused a definition that declares a tag and two
\* dependencies, the first of them registered, on a registry whose
\* definitions and two indexes all hold entries
C22_Witness ==
  /\ lastCall.op = "register"
  /\ thrown # NoError
  /\ lastCall.action.tags # <<>>
  /\ Len(lastCall.action.dependencies) = 2
  /\ lastCall.action.dependencies[1] \in DOMAIN registry
  /\ lastCall.action.id \notin DOMAIN registry
  /\ registry # <<>>
  /\ actionsByTag # <<>>
  /\ dependencyGraph # <<>>

\* ------------------------------------------------------------------------
\* C23
\* ------------------------------------------------------------------------
\* the step is a call of lock, resp. of register
LockCalled == nOps' = nOps + 1 /\ lastCall'.op = "lock"
RegisterCalled == nOps' = nOps + 1 /\ lastCall'.op = "register"

\* C23: lock is an irreversible one-way transition: once lock() has been
\* called, isLocked() is true in every later state and every later register
\* call fails with the locked error, whatever definition it is given; no
\* operation unlocks the registry.
C23_LockIrreversible ==
  [][/\ LockCalled => IsLocked'
     /\ IsLocked => IsLocked'
     /\ (IsLocked /\ RegisterCalled) =>
          /\ thrown' = LockedError
          /\ registry' = registry]_vars

\* after a registration and a lock, register was called with a valid
\* definition whose dependencies are registered, and threw the locked error
C23_Witness ==
  /\ IsLocked
  /\ registry # <<>>
  /\ lastCall.op = "register"
  /\ lastCall.action.id \notin DOMAIN registry \cup {""}
  /\ lastCall.action.description
  /\ lastCall.action.argsSchema
  /\ lastCall.action.dependencies # <<>>
  /\ Range(lastCall.action.dependencies) \subseteq DOMAIN registry
  /\ thrown = LockedError

\* ------------------------------------------------------------------------
\* C24
\* ------------------------------------------------------------------------
\* C24: a registered definition is never replaced: once register succeeded
\* for an identifier, get of that identifier returns that same definition
\* after any later sequence of register and lock calls, and a later register
\* with the same identifier fails and leaves the first definition in place.
C24_DefinitionNeverReplaced ==
  [][/\ \A id \in DOMAIN registry : Get(id)' = Get(id)
     /\ (RegisterCalled /\ lastCall'.action.id \in DOMAIN registry) =>
          /\ thrown' # NoError
          /\ ~locked => thrown' = AlreadyRegisteredError(lastCall'.action.id)]_vars

\* on an unlocked registry, register was refused a complete definition whose
\* identifier is registered with another definition, which get still returns
C24_Witness ==
  /\ ~locked
  /\ lastCall.op = "register"
  /\ lastCall.action.id \in DOMAIN registry
  /\ lastCall.action.description
  /\ lastCall.action.argsSchema
  /\ Range(lastCall.action.dependencies) \subseteq DOMAIN registry
  /\ Get(lastCall.action.id) # lastCall.action
  /\ thrown = AlreadyRegisteredError(lastCall.action.id)

\* ------------------------------------------------------------------------
\* C25
\* ------------------------------------------------------------------------
\* the registered actions that declared id as a direct dependency
DirectDependents(id) ==
  {x \in DOMAIN registry : id \in Range(registry[x].dependencies)}

\* C25: after any sequence of register calls, getDependents(id) returns
\* exactly the identifiers of the registered actions that declared id as a
\* direct dependency (none from failed registrations), and nothing for an
\* identifier nobody depends on.
C25_GetDependentsExact ==
  \A id \in ActionIds \cup {""} :
    /\ GetDependents(id) = DirectDependents(id)
    /\ DirectDependents(id) = {} => GetDependents(id) = {}

\* an action is registered that declared a dependency twice, register was
\* then refused a definition declaring that same dependency, and another
\* registered action has no dependents
C25_Witness ==
  /\ lastCall.op = "register"
  /\ thrown # NoError
  /\ lastCall.action.id \notin DOMAIN registry \cup {""}
  /\ \E id \in Range(lastCall.action.dependencies) :
       /\ GetDependents(id) # {}
       /\ lastCall.action.id \notin GetDependents(id)
       /\ \E x \in GetDependents(id) : registry[x].dependencies = <<id, id>>
  /\ \E id \in DOMAIN registry : GetDependents(id) = {}

\* ------------------------------------------------------------------------
\* C26
\* ------------------------------------------------------------------------
\* the registered actions can be ranked so that every action ranks above
\* all its dependencies: their dependency graph has no cycle
Acyclic ==
  \E rank \in [DOMAIN registry -> 1..Cardinality(DOMAIN registry)] :
    \A id \in DOMAIN registry :
      \A dep \in Range(registry[id].dependencies) \cap DOMAIN registry :
        rank[dep] < rank[id]

\* C26: the registry is always in a structurally executable state: after
\* any sequence of register and lock calls (successful or failed), every
\* dependency identifier of every registered action is itself registered and
\* the dependency graph of the registered actions is acyclic.
C26_StructurallyExecutable ==
  /\ \A id \in DOMAIN registry :
       Range(registry[id].dependencies) \subseteq DOMAIN registry
  /\ Acyclic

\* two registered actions, one depending on the other, after register was
\* refused a definition that depends on them and on an unregistered action
C26_Witness ==
  /\ \E id \in DOMAIN registry : registry[id].dependencies # <<>>
  /\ lastCall.op = "register"
  /\ thrown.kind = "which is not registered"
  /\ Len(lastCall.action.dependencies) = 2
  /\ lastCall.action.dependencies[1] \in DOMAIN registry
  /\ registry[lastCall.action.dependencies[1]].dependencies # <<>>

\* ------------------------------------------------------------------------
\* C27
\* ------------------------------------------------------------------------
\* the stages of the events of interpret's trace, in order
Stages == [i \in DOMAIN trace |-> trace[i].stage]

\* interpret returned, with a validator and an executor configured, a plan
\* with calls that passed the validate stage
ReturnedValidPlan ==
  /\ awaiting = "returned"
  /\ pipelineConfig.validator
  /\ pipelineConfig.repairMaxRetries > 0
  /\ pipelineConfig.executor
  /\ pipelineResult.plan.calls # <<>>
  /\ pipelineResult.plan.clarification = NoClarification
  /\ TraceEvent("validate", "complete", NoData) \in Range(trace)

\* C27: when an executor is configured and interpretation yields a plan
\* with calls that passes validation, Pipeline.interpret runs the plan
\* through the executor after the validate stage, returns the executor's
\* ExecutionResult as result.execution, and the returned trace contains an
\* 'execute' stage after the 'validate' stage.
C27_InterpretExecutesPlan ==
  ReturnedValidPlan =>
    /\ pc = "done"
    /\ calls = pipelineResult.plan.calls
    /\ pipelineResult.execution # NoExecution
    /\ \E i, j \in DOMAIN Stages :
         i < j /\ Stages[i] = "validate" /\ Stages[j] = "execute"

\* ------------------------------------------------------------------------
\* C28
\* ------------------------------------------------------------------------
\* the calls of the batches before batch k
BatchedBefore(k) == UNION {Range(batches[j]) : j \in 1..(k - 1)}

InFlight(id) == taskState[id] \in {"running", "sleeping"}

\* C29: the call-id -> outcome map passed to handlers as previousResults is
\* append-only and write-once: the entry of a call is added only after the
\* call's handler (including its retries) returned its final outcome, as
\* that outcome, and is never changed or removed afterwards; a handler
\* running in batch i observes the outcomes of batches before i only, never
\* an entry of a call of its own batch.
C29_ResultsWriteOnce ==
  [][/\ \A id \in DOMAIN results :
          id \in DOMAIN results' /\ results'[id] = results[id]
     /\ \A id \in DOMAIN results' \ DOMAIN results :
          /\ Settled(id)
          /\ ~InFlight(id)'
          /\ results'[id] = batchResults[id]
     /\ (pc = "executing" /\ \E id \in CallIds : InFlight(id)) =>
          /\ DOMAIN results = BatchedBefore(batchIdx)
          /\ DOMAIN results \cap Range(batches[batchIdx]) = {}]_vars

\* a handler of the second batch runs after a call of its batch settled:
\* the map holds the entries of the first batch and none of the second
C29_Witness ==
  /\ pc = "executing"
  /\ batchIdx = 2
  /\ DOMAIN results = Range(batches[1])
  /\ \E x, y \in Range(batches[2]) :
       /\ taskState[x] = "running"
       /\ Settled(y)
       /\ y \notin DOMAIN results

\* ------------------------------------------------------------------------
\* C30
\* ------------------------------------------------------------------------
\* execute returned its result: every call has a success recorded and none
\* failed, or a failure was counted, no compensating handler is in flight
\* and, compensation enabled, the compensating handler of every call with a
\* success recorded whose action declares one was invoked, once
Done ==
  /\ pc = "done"
  /\ \/ /\ failed = 0
        /\ \A id \in CallIds : RecordedSuccess(id)
     \/ /\ failed > 0
        /\ compIdx = 0
        /\ EnableCompensation =>
             \A id \in CallIds :
               (RecordedSuccess(id) /\ DeclaresCompensate(id)) =>
                 Cardinality({i \in DOMAIN compLog : Compensated[i] = id}) = 1

\* C30 as stated: for every finite plan with acyclic call dependencies,
\* terminating handlers and compensating handlers, and finite maxAttempts,
\* execute eventually reaches Done: all batches executed with zero failures,
\* or a batch contained a failure and every compensating handler that is
\* due has completed before execute returns its result.
C30_AcyclicPlanReachesDone ==
  (pc = "idle" /\ ~HasCycle) ~> Done

\* C30 for the plans whose dependsOn name calls of the plan only: for every
\* such plan with acyclic call dependencies, terminating handlers and
\* compensating handlers, and finite maxAttempts, execute eventually reaches
\* Done.
C30_WellFormedPlanReachesDone ==
  (pc = "idle" /\ ~HasCycle /\ ~HasDanglingDependsOn) ~> Done

\* execute returned after a call of the second batch failed at its last
\* attempt of several and two compensating handlers completed
C30_Witness ==
  /\ Done
  /\ failed > 0
  /\ Len(compLog) >= 2
  /\ \E id \in CallIds : SettledError(id) /\ BatchOf(id) = 2

\* ------------------------------------------------------------------------
\* C31
\* ------------------------------------------------------------------------
\* the depth of a call in the dependency graph of the plan: one more than
\* the largest depth of the calls it depends on
RECURSIVE Depth(_)
Depth(id) ==
  IF DirectDependencies(id) = {} THEN 1
  ELSE LET below == {Depth(d) : d \in DirectDependencies(id)}
       IN 1 + CHOOSE m \in below : \A n \in below : n <= m

\* the batches as the call list and the dependency declarations of the
\* registry determine them: batch k holds the calls of depth k, in the order
\* of the call list
DeterminedBatches ==
  LET planOrder == [i \in DOMAIN calls |-> calls[i].callId]
      depths == {Depth(id) : id \in CallIds}
  IN [k \in 1..Cardinality(depths) |->
        SelectSeq(planOrder, LAMBDA id : Depth(id) = k)]

OverlapPlans ==
  {Plan(as, NoDependsOn(as)) : as \in {<<"a", "b">>, <<"b", "a", "c">>}}

\* one executor, execute called twice before the first call returned: b
\* depends on a and may declare a retry policy, c has no compensating
\* handler
OverlapInit ==
  /\ \E rb \in {NoRetry, <<RetryConfig(MaxAttempts, "linear", 500)>>}, ec \in BOOLEAN :
       /\ registry = Reg(Plain(<<>>),
                         ActionDefinition(<<"a">>, TRUE, TRUE, rb),
                         ActionDefinition(<<>>, TRUE, FALSE, NoRetry))
       /\ config = Config(ec, TRUE, NoRetry)
  /\ calls \in OverlapPlans
  /\ Populated
  /\ NotStarted
  /\ NoPipeline
  /\ \E cs \in OverlapPlans : otherCall = FreshLocals(cs)
  /\ active = 1
  /\ NoMemory

OverlapNext ==
  \/ Execute
  \/ \E id \in CallIds : HandlerReturn(id)
  \/ \E id \in CallIds : HandlerThrow(id)
  \/ \E id \in CallIds : WakeUp(id)
  \/ BatchSettled
  \/ CompReturn
  \/ CompThrow
  \/ ResumeOther

OverlapSpec == OverlapInit /\ [][OverlapNext]_vars

\* ------------------------------------------------------------------------
\* C33
\* ------------------------------------------------------------------------
\* the result map of an execute call holds outcomes of that call only: each
\* entry is the entry one of its own batches produced for one of its own
\* calls, and what its compensating handlers were handed is a result of its
\* own
OwnOutcomesOnly(locals) ==
  /\ \A id \in DOMAIN locals.results :
       /\ id \in DOMAIN locals.batchResults
       /\ id \in Range(locals.executedCalls)
       /\ locals.results[id] = locals.batchResults[id]
  /\ Range(locals.executedCalls) = DOMAIN locals.results
  /\ \A k \in DOMAIN locals.compLog :
       /\ locals.compLog[k].callId \in DOMAIN locals.batchResults
       /\ locals.compLog[k].result =
            locals.batchResults[locals.compLog[k].callId].result
  /\ locals.succeeded + locals.failed <= Len(locals.calls) + 1

\* C33: execution state is per invocation. Each execute call works on a
\* result map and a completed-call list of its own, so that the
\* previousResults its handlers see, the ExecutionResult it returns and the
\* results its compensation is handed hold outcomes of that call only, also
\* when two execute calls on the same executor overlap in time; and the
\* executor's own fields (registry, config) are not written by an
\* execution, so that the executor holds no result after returning it.
C33_StatePerInvocation ==
  /\ [](OwnOutcomesOnly(Locals) /\ OwnOutcomesOnly(otherCall))
  /\ [][config' = config /\ registry' = registry]_vars

\* two execute calls are in progress at the same time, each with merged
\* outcomes of its own for the same callIds, and the outcomes differ
C33_Witness ==
  /\ pc = "executing"
  /\ otherCall.pc \in {"executing", "compensating"}
  /\ results # <<>>
  /\ otherCall.results # <<>>
  /\ DOMAIN results \cap DOMAIN otherCall.results # {}
  /\ results # otherCall.results

\* ------------------------------------------------------------------------
\* The calls made on a ThreeTierMemory
\* ------------------------------------------------------------------------
ConversationIds == {"conv1", "conv2"}

\* new ThreeTierMemory() or new ThreeTierMemory({workingMemoryTurns: n}),
\* no registry populated and no executor running
MemoryInit ==
  /\ \E w \in {<<>>} \cup {<<n>> : n \in 0..MaxWorkingMemoryTurns} :
       memoryConfig = ThreeTierMemoryConfig(w)
  /\ conversations = <<>>
  /\ added = <<>>
  /\ nAdded = 0
  /\ registry = <<>>
  /\ actionsByTag = <<>>
  /\ dependencyGraph = <<>>
  /\ locked = FALSE
  /\ lastCall = NoCall
  /\ thrown = NoError
  /\ nOps = 0
  /\ config = DefaultConfig
  /\ calls = <<>>
  /\ NotStarted
  /\ NoPipeline
  /\ NoOtherExecution

\* the n-th message added has content n
MemoryNext ==
  \/ \E c \in ConversationIds, role \in {"user", "assistant"} :
       AddMessage(c, Message(role, nAdded + 1))
  \/ \E c \in ConversationIds : ClearConversation(c)

MemorySpec == MemoryInit /\ [][MemoryNext]_vars

\* ------------------------------------------------------------------------
\* C34
\* ------------------------------------------------------------------------
\* the last k elements of a sequence
LastOf(s, k) == SubSeq(s, Len(s) - k + 1, Len(s))

\* C34: for every workingMemoryTurns = n >= 0 and after any sequence of
\* addMessage calls, the working memory of a conversation is exactly the
\* last min(m, 2n) messages of its archival memory, m being the number of
\* messages added since the conversation was created or last cleared; it
\* never holds more than 2n messages, and archival memory holds all m
\* messages in insertion order.
C34_WorkingIsWindowOfArchival ==
  \A c \in DOMAIN conversations :
    LET n == memoryConfig.workingMemoryTurns
        m == Len(added[c])
        k == IF m < 2 * n THEN m ELSE 2 * n
    IN /\ GetArchivalMessages(c) = added[c]
       /\ GetMessagesForLLM(c) = LastOf(GetArchivalMessages(c), k)
       /\ Len(GetMessagesForLLM(c)) <= 2 * n

\* ------------------------------------------------------------------------
\* C35
\* ------------------------------------------------------------------------
\* C35: for every effective retry policy, maxAttempts = 0 or negative
\* included, a call is recorded and counted as succeeded only if its handler
\* was invoked at least once and its last invocation returned normally; a
\* call whose handler was never invoked is neither reported as a success nor
\* compensated.
C35_SuccessNeedsInvocation ==
  \A id \in CallIds :
    /\ RecordedSuccess(id) =>
         /\ Started(id)
         /\ results[id].result = attempts[id]
    /\ id \in Range(Compensated) => Started(id)
    /\ (pc = "done" /\ ~Started(id)) => succeeded < Len(calls)

\* ------------------------------------------------------------------------
\* C36
\* ------------------------------------------------------------------------
\* C36: a call whose dependsOn names a call identifier that is not in the
\* plan can never be scheduled: execute fails with the cycle error for the
\* whole execution and invokes no handler at all, although the call
\* dependencies contain no cycle.
C36_DanglingDependsOnFailsAll ==
  /\ [](HasDanglingDependsOn =>
          /\ BuildExecutionOrder(calls).thrown
          /\ pc \in {"idle", "threw"}
          /\ batches = <<>>
          /\ \A id \in CallIds : ~Started(id) /\ taskState[id] = "pending"
          /\ results = <<>> /\ executedCalls = <<>> /\ compLog = <<>>
          /\ succeeded = 0
          /\ pc = "threw" => failed = 1)
  /\ [][(HasDanglingDependsOn /\ pc = "idle") => pc' = "threw"]_vars

\* execute threw for a plan of three calls without cycle, one of them with
\* a dependsOn that names no call of the plan
C36_Witness ==
  /\ pc = "threw"
  /\ HasDanglingDependsOn
  /\ ~HasCycle
  /\ Len(calls) = 3
  /\ \E c \in Range(calls) : c.dependsOn = {}

\* ------------------------------------------------------------------------
\* C37
\* ------------------------------------------------------------------------
\* the actions the action of the call declares as dependencies and that no
\* call of the plan invokes
UnimplementedDependencies(id) ==
  {x \in Range(ActionDeps(CallOf(id).actionId)) :
     \A c \in Range(calls) : c.actionId # x}

\* C37: a call whose action declares a dependency on action X is still
\* executed when no call of the plan invokes X: the dependency adds no
\* call-level dependency, the call is placed in the first batch its other
\* dependencies allow, and its handler runs although X never ran in this
\* execution.
C37_UnimplementedDependencyIgnored ==
  \A id \in CallIds :
    (UnimplementedDependencies(id) # {} /\ ~HasCycle /\ ~HasDanglingDependsOn) =>
      /\ pc # "threw"
      /\ Scheduled =>
           /\ BatchOf(id) = Depth(id)
           /\ DirectDependencies(id) = {} => BatchOf(id) = 1
           /\ batchIdx >= BatchOf(id) =>
                /\ taskState[id] # "pending"
                /\ LaunchTask(id).state = "running" => Started(id)

\* action c depends on a and b; the plan has calls of b and c and none of
\* a: the call of c ran in the second batch, after the call of b, and its
\* success is recorded
C37_Witness ==
  \E id \in CallIds :
    /\ UnimplementedDependencies(id) # {}
    /\ DirectDependencies(id) # {}
    /\ BatchOf(id) = 2
    /\ Started(id)
    /\ RecordedSuccess(id)
    /\ pc = "done"

\* ------------------------------------------------------------------------
\* C38
\* ------------------------------------------------------------------------
\* the step is a call of register, on an unlocked registry, with a valid
\* definition of a new identifier whose dependencies are all registered
RegistersOverRegistered ==
  /\ nOps' = nOps + 1
  /\ lastCall'.op = "register"
  /\ ~locked
  /\ OtherwiseValid(lastCall'.action)
  /\ Range(lastCall'.action.dependencies) \subseteq DOMAIN registry

C39_UnstartedBatchesUnrecorded ==
  \A x \in CallIds :
    (x \in DOMAIN results /\ Truthy(results[x].error)) =>
      /\ pc \in {"compensating", "done"}
      /\ batchIdx = BatchOf(x)
      /\ \A y \in CallIds :
           BatchOf(y) > batchIdx =>
             /\ y \notin DOMAIN results
             /\ y \notin Range(executedCalls)
             /\ y \notin Range(Compensated)
             /\ ~Started(y)
             /\ taskState[y] = "pending"
      /\ succeeded + failed = Cardinality(DOMAIN results)
      /\ succeeded + failed <=
           Cardinality({y \in CallIds : BatchOf(y) <= batchIdx})

\* execute returned after a failure in the first of three batches: one
\* call counted, two calls of later batches without entry
C39_Witness ==
  /\ pc = "done"
  /\ Len(batches) = 3
  /\ batchIdx = 1
  /\ failed = 1
  /\ succeeded + failed = 1
  /\ Len(calls) = 3
  /\ Cardinality(DOMAIN results) = 1
  /\ \E x \in DOMAIN results : Started(x)

\* ------------------------------------------------------------------------
\* C40
\* ------------------------------------------------------------------------
\* C40: compensation is sequential: at most one compensating handler is in
\* flight at any time, the compensating handler of the next call is started
\* only after the previous one has settled (returned or failed), and no
\* call handler runs while compensation is in progress.
C40_CompensationSequential ==
  /\ [](pc = "compensating" =>
          /\ compLog # <<>>
          /\ compIdx \in DOMAIN executedCalls
          /\ Compensated[Len(compLog)] = Reverse(executedCalls)[compIdx]
          /\ \A id \in CallIds : taskState[id] \in {"pending", "settled"})
  /\ [][compLog' # compLog =>
          /\ compLog' = Append(compLog, compLog'[Len(compLog')])
          /\ pc' = "compensating"
          /\ \A id \in CallIds : taskState[id] \in {"pending", "settled"}
          /\ pc = "compensating" => compIdx' > compIdx
          /\ pc # "compensating" => compLog = <<>>]_vars
  /\ [][(pc = "compensating" /\ attempts' # attempts) => FALSE]_vars

\* the third compensating handler is in flight, the first having thrown
\* and the second having returned
C40_Witness ==
  /\ pc = "compensating"
  /\ Len(compLog) = 3
  /\ Compensated[1] \in compFailed
  /\ Compensated[2] \notin compFailed

====
